---- MODULE Spec2Model ----
(***************************************************************************)
(* Portfolio tracker: the valuation engine (utils/calculations.ts), the    *)
(* App component's state, handlers and memoised summary, and the           *)
(* Dashboard's rebalancing calculation.                                    *)
(*                                                                         *)
(* Every JavaScript Number is an IEEE-754 binary64 value.  The model keeps *)
(* that arithmetic: a Number is a record [neg, man, exp] standing for      *)
(* (-1)^neg * man * 2^exp with man a 53-bit natural (or zero), and every   *)
(* operation rounds its exact result to nearest, ties to even.  Naturals   *)
(* wider than 31 bits are little-endian sequences of base-2^15 limbs.  A   *)
(* division by zero yields NonFinite.  Exponent overflow, subnormals and   *)
(* the sign of zero are outside the magnitudes the model draws.            *)
(***************************************************************************)
EXTENDS Integers, Sequences, FiniteSets, TLC

(***************************************************************************)
(* Wide naturals: little-endian limb sequences, no high zero limb.         *)
(***************************************************************************)
LimbBase == 32768

LimbBits == 15

RECURSIVE BTrim(_)
BTrim(a) ==
  IF a = <<>> THEN <<>>
  ELSE IF a[Len(a)] = 0 THEN BTrim(SubSeq(a, 1, Len(a) - 1))
  ELSE a

RECURSIVE BFromNat(_)
BFromNat(n) ==
  IF n = 0 THEN <<>> ELSE <<n % LimbBase>> \o BFromNat(n \div LimbBase)

RECURSIVE BToNat(_)
BToNat(a) ==
  IF a = <<>> THEN 0 ELSE Head(a) + LimbBase * BToNat(Tail(a))

RECURSIVE BCmpFrom(_, _, _)
BCmpFrom(a, b, i) ==
  IF i = 0 THEN 0
  ELSE IF a[i] > b[i] THEN 1
  ELSE IF a[i] < b[i] THEN -1
  ELSE BCmpFrom(a, b, i - 1)

BCmp(a, b) ==
  IF Len(a) > Len(b) THEN 1
  ELSE IF Len(a) < Len(b) THEN -1
  ELSE BCmpFrom(a, b, Len(a))

RECURSIVE BAddC(_, _, _)
BAddC(a, b, c) ==
  IF a = <<>> /\ b = <<>> THEN (IF c = 0 THEN <<>> ELSE <<c>>)
  ELSE LET x == (IF a = <<>> THEN 0 ELSE Head(a))
               + (IF b = <<>> THEN 0 ELSE Head(b)) + c
       IN  <<x % LimbBase>>
             \o BAddC(IF a = <<>> THEN <<>> ELSE Tail(a),
                      IF b = <<>> THEN <<>> ELSE Tail(b),
                      x \div LimbBase)

BAdd(a, b) == BAddC(a, b, 0)

\* a - b for a >= b
RECURSIVE BSubC(_, _, _)
BSubC(a, b, c) ==
  IF a = <<>> THEN <<>>
  ELSE LET x == Head(a) - (IF b = <<>> THEN 0 ELSE Head(b)) - c
       IN  <<x % LimbBase>>
             \o BSubC(Tail(a), IF b = <<>> THEN <<>> ELSE Tail(b),
                      IF x < 0 THEN 1 ELSE 0)

BSub(a, b) == BTrim(BSubC(a, b, 0))

\* a * k + c for a limb k
RECURSIVE BMulLimb(_, _, _)
BMulLimb(a, k, c) ==
  IF a = <<>> THEN (IF c = 0 THEN <<>> ELSE <<c>>)
  ELSE LET x == Head(a) * k + c
       IN  <<x % LimbBase>> \o BMulLimb(Tail(a), k, x \div LimbBase)

BShiftLimbs(a, n) ==
  IF a = <<>> THEN <<>> ELSE [i \in 1..n |-> 0] \o a

RECURSIVE BMul(_, _)
BMul(a, b) ==
  IF a = <<>> \/ b = <<>> THEN <<>>
  ELSE BAdd(BTrim(BMulLimb(a, Head(b), 0)), BShiftLimbs(BMul(a, Tail(b)), 1))

BitLenLimb(x) == CHOOSE k \in 1..LimbBits : 2^(k - 1) <= x /\ x < 2^k

BBitLen(a) ==
  IF a = <<>> THEN 0 ELSE LimbBits * (Len(a) - 1) + BitLenLimb(a[Len(a)])

\* a * 2^k
BShl(a, k) ==
  BTrim(BMulLimb(BShiftLimbs(a, k \div LimbBits), 2^(k % LimbBits), 0))

\* floor(a / 2^k)
BShr(a, k) ==
  LET d == k \div LimbBits
      r == k % LimbBits
      n == Len(a) - d
  IN
  IF n <= 0 THEN <<>>
  ELSE BTrim([i \in 1..n |->
                (a[i + d] \div 2^r)
                + (IF i + d < Len(a)
                     THEN (a[i + d + 1] % 2^r) * 2^(LimbBits - r)
                     ELSE 0)])

BPow2(k) == BShl(<<1>>, k)

BIsOdd(a) == a # <<>> /\ a[1] % 2 = 1

\* limb i of a, counted from 1, the limbs beyond the last being 0
BLimb(a, i) == IF i <= Len(a) THEN a[i] ELSE 0

\* the largest limb d <= guess with d * bs <= rem
RECURSIVE BDigit(_, _, _)
BDigit(rem, bs, guess) ==
  IF BCmp(BTrim(BMulLimb(bs, guess, 0)), rem) <= 0 THEN guess
  ELSE BDigit(rem, bs, guess - 1)

\* the two limbs of rem that face the top limb v of the divisor, divided by
\* v: never less than the quotient limb
BGuess(rem, v, top) ==
  IF (BLimb(rem, top + 1) * LimbBase + BLimb(rem, top)) \div v >= LimbBase
    THEN LimbBase - 1
    ELSE (BLimb(rem, top + 1) * LimbBase + BLimb(rem, top)) \div v

\* long division, one quotient limb per step from limb i down to limb 0;
\* qs holds the limbs found so far
RECURSIVE BDivStep(_, _, _, _)
BDivTake(rem, b, i, qs, bs, d) ==
  BDivStep(BSub(rem, BTrim(BMulLimb(bs, d, 0))), b, i - 1, <<d>> \o qs)

BDivShifted(rem, b, i, qs, bs) ==
  BDivTake(rem, b, i, qs, bs, BDigit(rem, bs, BGuess(rem, b[Len(b)], Len(b) + i)))

BDivStep(rem, b, i, qs) ==
  IF i < 0 THEN [q |-> BTrim(qs), r |-> rem]
  ELSE BDivShifted(rem, b, i, qs, BShiftLimbs(b, i))

\* a and b shifted by the same s bits, which leaves the quotient as it is
BDivNormalised(a, b, n, s) ==
  BDivStep(BShl(a, s), BShl(b, s), n - 1, <<>>)

\* floor(a / b) and whether the remainder is zero, for b # 0 and a quotient
\* of at most n limbs; b is shifted to fill its top limb
BDivMod(a, b, n) ==
  BDivNormalised(a, b, n, LimbBits - BitLenLimb(b[Len(b)]))

(***************************************************************************)
(* Exact dyadic rationals [neg, man, exp] = (-1)^neg * man * 2^exp, with   *)
(* man any wide natural.  They carry the exact result of an operation      *)
(* before it is rounded, and the real-number side of a comparison.         *)
(***************************************************************************)
XZero == [neg |-> FALSE, man |-> <<>>, exp |-> 0]

XIsZero(x) == x.man = <<>>

XInt(n) == [neg |-> n < 0, man |-> BFromNat(IF n < 0 THEN -n ELSE n), exp |-> 0]

XPow2(k) == [neg |-> FALSE, man |-> <<1>>, exp |-> k]

XNeg(x) == IF XIsZero(x) THEN x ELSE [x EXCEPT !.neg = ~x.neg]

XAbs(x) == [x EXCEPT !.neg = FALSE]

XMul(x, y) ==
  IF XIsZero(x) \/ XIsZero(y) THEN XZero
  ELSE [neg |-> x.neg # y.neg, man |-> BMul(x.man, y.man), exp |-> x.exp + y.exp]

\* the sum of (-1)^xneg * a * 2^e and (-1)^yneg * b * 2^e, c being BCmp(a, b)
XAddMagnitudes(xneg, yneg, a, b, c, e) ==
  IF xneg = yneg THEN [neg |-> xneg, man |-> BAdd(a, b), exp |-> e]
  ELSE IF c = 0 THEN XZero
  ELSE IF c > 0 THEN [neg |-> xneg, man |-> BSub(a, b), exp |-> e]
  ELSE [neg |-> yneg, man |-> BSub(b, a), exp |-> e]

XAddAligned(xneg, yneg, a, b, e) ==
  XAddMagnitudes(xneg, yneg, a, b, BCmp(a, b), e)

XAddAt(x, y, e) ==
  XAddAligned(x.neg, y.neg, BShl(x.man, x.exp - e), BShl(y.man, y.exp - e), e)

XAdd(x, y) ==
  IF XIsZero(x) THEN y
  ELSE IF XIsZero(y) THEN x
  ELSE XAddAt(x, y, IF x.exp < y.exp THEN x.exp ELSE y.exp)

XSub(x, y) == XAdd(x, XNeg(y))

XSign(d) == IF XIsZero(d) THEN 0 ELSE IF d.neg THEN -1 ELSE 1

\* the sign of x - y
XCmp(x, y) == XSign(XSub(x, y))

XLeq(x, y) == XCmp(x, y) <= 0

XEq(x, y) == XCmp(x, y) = 0

(***************************************************************************)
(* JavaScript Numbers (IEEE-754 binary64, round to nearest, ties to even): *)
(* a Number is an exact dyadic whose man is zero or has exactly 53 bits.   *)
(***************************************************************************)
MantBits == 53

FZero == XZero

\* stands for NaN and the infinities: the result of a division by zero
NonFinite == [neg |-> FALSE, man |-> <<-1>>, exp |-> 0]

FIsZero(x) == XIsZero(x)

\* a rounded-up significand of 54 bits is 2^53: renormalise
FRenormalise(neg, q, e) ==
  IF BBitLen(q) > MantBits
    THEN [neg |-> neg, man |-> BShr(q, 1), exp |-> e + 1]
    ELSE [neg |-> neg, man |-> q, exp |-> e]

\* q is the significand cut to 53 bits, c compares the k bits cut off with
\* half a unit of q: round up above half, and at half when q is odd
FRoundCut(x, k, q, c) ==
  FRenormalise(x.neg,
               IF c > 0 \/ (c = 0 /\ BIsOdd(q)) THEN BAdd(q, <<1>>) ELSE q,
               x.exp + k)

FRoundQuotient(x, k, q) ==
  FRoundCut(x, k, q, BCmp(BSub(x.man, BShl(q, k)), BPow2(k - 1)))

FRoundBits(x, len) ==
  IF len = 0 THEN FZero
  ELSE IF len <= MantBits
    THEN [neg |-> x.neg, man |-> BShl(x.man, MantBits - len),
          exp |-> x.exp - (MantBits - len)]
  ELSE FRoundQuotient(x, len - MantBits, BShr(x.man, len - MantBits))

\* the Number nearest to the exact value x
FRound(x) == FRoundBits(x, BBitLen(x.man))

\* an integer as a Number (exact below 2^53)
FFromInt(n) == FRound(XInt(n))

FNeg(x) == XNeg(x)

FAbs(x) == XAbs(x)

\* x * y
FMul(x, y) ==
  IF x = NonFinite \/ y = NonFinite THEN NonFinite ELSE FRound(XMul(x, y))

\* x + y
FAdd(x, y) == FRound(XAdd(x, y))

\* x - y
FSub(x, y) == FRound(XSub(x, y))

\* x / y for y # 0: 56 quotient bits and a sticky bit decide the rounding
FDivQuotient(neg, d, e) ==
  FRound([neg |-> neg,
          man |-> BAdd(BShl(d.q, 1), IF d.r = <<>> THEN <<>> ELSE <<1>>),
          exp |-> e])

FDiv(x, y) ==
  IF x = NonFinite \/ y = NonFinite \/ FIsZero(y) THEN NonFinite
  ELSE IF FIsZero(x) THEN FZero
  ELSE FDivQuotient(x.neg # y.neg, BDivMod(BShl(x.man, MantBits + 2), y.man, 4),
                    x.exp - y.exp - (MantBits + 3))

\* x > 0
FPositive(x) == ~FIsZero(x) /\ ~x.neg

\* a decimal literal n / scale, as the parser rounds it
FLit(n, scale) == FDiv(FFromInt(n), FFromInt(scale))

\* a rounding that sends a tie away from zero
MathRound_HalfAwayFromZero(x) ==
  IF FIsZero(x) THEN 0
  ELSE IF x.exp >= 0 THEN (IF x.neg THEN -1 ELSE 1) * BToNat(BShl(x.man, x.exp))
  ELSE (IF x.neg THEN -1 ELSE 1)
         * BToNat(BShr(BAdd(x.man, BPow2(-x.exp - 1)), -x.exp))

\* Math.round: the integer nearest to x, a tie going towards +Infinity
MathRound(x) ==
  IF FIsZero(x) THEN 0
  ELSE IF x.exp >= 0 THEN (IF x.neg THEN -1 ELSE 1) * BToNat(BShl(x.man, x.exp))
  ELSE LET k    == -x.exp
           half == BPow2(k - 1)
       IN  IF ~x.neg THEN BToNat(BShr(BAdd(x.man, half), k))
           ELSE IF BCmp(x.man, half) <= 0 THEN 0
           ELSE -BToNat(BShr(BAdd(BSub(x.man, half), BSub(BPow2(k), <<1>>)), k))

(***************************************************************************)
(* types.ts, constants.ts, utils/calculations.ts                           *)
(***************************************************************************)
STOCK == "STOCK"

BOND == "BOND"

AssetType == {STOCK, BOND}

\* avgPrice and currentPrice are held in hundredths, the step of the price
\* inputs; Price is the Number the program computes with
PriceScale == 100

Price(p) == FLit(p, PriceScale)

FEE_RATE == FLit(1425, 1000000)

FEE_DISCOUNT == FLit(28, 100)

TAX_RATE_STOCK == FLit(1, 1000)

\* declared next to the stock rate; calculatePresentValue does not read it
TAX_RATE_BOND == FZero

\* fee = amount * FEE_RATE * FEE_DISCOUNT, for baseCost and for marketValue
Fee(amount) == FMul(FMul(amount, FEE_RATE), FEE_DISCOUNT)

\* quantity * price
Amount(quantity, price) == FMul(FFromInt(quantity), Price(price))

\* baseCost + fee
CostOf(baseCost) == FAdd(baseCost, Fee(baseCost))

\* the argument of Math.round in calculateCost
CostBeforeRound(holding) == CostOf(Amount(holding.quantity, holding.avgPrice))

\* calculateCost rounding the base cost and the fee separately
calculateCost_RoundedSeparately(holding) ==
  MathRound(Amount(holding.quantity, holding.avgPrice))
    + MathRound(Fee(Amount(holding.quantity, holding.avgPrice)))

\* calculateCost charging the undiscounted fee
calculateCost_NoDiscount(holding) ==
  MathRound(FAdd(Amount(holding.quantity, holding.avgPrice),
                 FMul(Amount(holding.quantity, holding.avgPrice), FEE_RATE)))

\* calculateCost charging a fee of at least one currency unit
calculateCost_MinimumFee(holding) ==
  IF FPositive(FSub(Fee(Amount(holding.quantity, holding.avgPrice)), FFromInt(1)))
    THEN MathRound(CostBeforeRound(holding))
    ELSE MathRound(FAdd(Amount(holding.quantity, holding.avgPrice), FFromInt(1)))

calculateCost(holding) == MathRound(CostBeforeRound(holding))

\* let tax = 0; if (holding.type === AssetType.STOCK) tax = marketValue * TAX_RATE_STOCK
Tax(marketValue, type) ==
  IF type = STOCK THEN FMul(marketValue, TAX_RATE_STOCK) ELSE FZero

\* marketValue - fee - tax
PresentValueOf(marketValue, type) ==
  FSub(FSub(marketValue, Fee(marketValue)), Tax(marketValue, type))

\* the argument of Math.round in calculatePresentValue
PresentValueBeforeRound(holding) ==
  PresentValueOf(Amount(holding.quantity, holding.currentPrice), holding.type)

\* calculatePresentValue charging the transaction tax whatever the type
calculatePresentValue_TaxForAll(holding) ==
  MathRound(PresentValueOf(Amount(holding.quantity, holding.currentPrice), STOCK))

calculatePresentValue(holding) == MathRound(PresentValueBeforeRound(holding))

\* roi = cost === 0 ? 0 : (profit / cost) * 100
Roi(profit, cost) ==
  IF cost = 0 THEN FZero
  ELSE FMul(FDiv(FFromInt(profit), FFromInt(cost)), FFromInt(100))

\* the CalculatedHolding assembled from the holding and its cost and value
Enriched(holding, cost, presentValue, roi) ==
  [id |-> holding.id, name |-> holding.name, code |-> holding.code,
   type |-> holding.type, quantity |-> holding.quantity,
   avgPrice |-> holding.avgPrice, currentPrice |-> holding.currentPrice,
   marketValueRaw |-> Amount(holding.quantity, holding.currentPrice),
   cost |-> cost, presentValue |-> presentValue,
   profit |-> presentValue - cost, roi |-> roi]

EnrichFrom(holding, cost, presentValue) ==
  Enriched(holding, cost, presentValue, Roi(presentValue - cost, cost))

\* enrichHolding without the guard on a zero cost
enrichHolding_Unguarded(holding) ==
  Enriched(holding, calculateCost(holding), calculatePresentValue(holding),
           FMul(FDiv(FFromInt(calculatePresentValue(holding) - calculateCost(holding)),
                     FFromInt(calculateCost(holding))),
                FFromInt(100)))

enrichHolding(holding) ==
  EnrichFrom(holding, calculateCost(holding), calculatePresentValue(holding))

INITIAL_CASH == 1000000

INITIAL_HOLDINGS ==
  << [id |-> "1", name |-> "Yuanta Taiwan 50", code |-> "0050", type |-> STOCK,
      quantity |-> 22000, avgPrice |-> 6235, currentPrice |-> 6370],
     [id |-> "2", name |-> "Yuanta High Dividend", code |-> "0056", type |-> STOCK,
      quantity |-> 20000, avgPrice |-> 3596, currentPrice |-> 3654],
     [id |-> "5", name |-> "Capital TW Select High Div", code |-> "00919", type |-> STOCK,
      quantity |-> 40000, avgPrice |-> 2162, currentPrice |-> 2246],
     [id |-> "3", name |-> "Yuanta US Treasury 20Y", code |-> "00679B", type |-> BOND,
      quantity |-> 45000, avgPrice |-> 2762, currentPrice |-> 2727],
     [id |-> "4", name |-> "Yuanta IG Corporate Bond", code |-> "00720B", type |-> BOND,
      quantity |-> 30000, avgPrice |-> 3374, currentPrice |-> 3369],
     [id |-> "6", name |-> "Capital ESG IG Bond 20+", code |-> "00937B", type |-> BOND,
      quantity |-> 45000, avgPrice |-> 1517, currentPrice |-> 1507] >>

(***************************************************************************)
(* components/Dashboard.tsx: rebalancingCalculations                       *)
(***************************************************************************)
TargetStock == FLit(6, 10)

TargetBond == FLit(4, 10)

\* the stock branch dividing by the target share instead of its complement
InflowToStock_DividedByTarget(investedTotal, targetStockValue, stockValue, diff) ==
  [investedTotal |-> investedTotal, diff |-> diff,
   switchAmount |-> FAbs(diff), switchAction |-> "buy_stock",
   inflowAmount |-> FDiv(FSub(targetStockValue, FFromInt(stockValue)), TargetStock),
   inflowType |-> "stock"]

\* the branch taken when diff > 0: cash buys stock
InflowToStock(investedTotal, targetStockValue, stockValue, diff) ==
  [investedTotal |-> investedTotal, diff |-> diff,
   switchAmount |-> FAbs(diff), switchAction |-> "buy_stock",
   inflowAmount |-> FDiv(FSub(targetStockValue, FFromInt(stockValue)), TargetBond),
   inflowType |-> "stock"]

\* the branch taken otherwise: cash buys bond
InflowToBond(investedTotal, bondValue, diff) ==
  [investedTotal |-> investedTotal, diff |-> diff,
   switchAmount |-> FAbs(diff), switchAction |-> "buy_bond",
   inflowAmount |->
     FDiv(FSub(FMul(FFromInt(investedTotal), TargetBond), FFromInt(bondValue)),
          TargetStock),
   inflowType |-> "bond"]

RebalanceFrom(investedTotal, targetStockValue, stockValue, bondValue, diff) ==
  IF FPositive(diff)
    THEN InflowToStock(investedTotal, targetStockValue, stockValue, diff)
    ELSE InflowToBond(investedTotal, bondValue, diff)

RebalanceTo(investedTotal, targetStockValue, stockValue, bondValue) ==
  RebalanceFrom(investedTotal, targetStockValue, stockValue, bondValue,
                FSub(targetStockValue, FFromInt(stockValue)))

\* { action: 'none', amount: 0, text: ... }
NoRebalance == [action |-> "none", amount |-> FZero, text |-> "no invested position"]

\* the sentinel returned when there is no stock, whatever the bonds
RebalanceOf_GuardsStockOnly(investedTotal, stockValue, bondValue) ==
  IF stockValue = 0 THEN NoRebalance
  ELSE RebalanceTo(investedTotal, FMul(FFromInt(investedTotal), TargetStock),
                   stockValue, bondValue)

RebalanceOf(investedTotal, stockValue, bondValue) ==
  IF investedTotal = 0 THEN NoRebalance
  ELSE RebalanceTo(investedTotal, FMul(FFromInt(investedTotal), TargetStock),
                   stockValue, bondValue)

rebalancingCalculations(s) ==
  RebalanceOf(s.stockValue + s.bondValue, s.stockValue, s.bondValue)

(***************************************************************************)
(* App.tsx: the memoised views                                             *)
(***************************************************************************)
customOrder == <<"0050", "0056", "00919", "00679B", "00720B", "00937B">>

\* Array.prototype.indexOf, positions counted from 0
indexOf(arr, x) ==
  IF \E i \in DOMAIN arr : arr[i] = x
    THEN (CHOOSE i \in DOMAIN arr : arr[i] = x /\ \A j \in 1..(i - 1) : arr[j] # x) - 1
    ELSE -1

\* the comparator handed to sort
CompareIndex(indexA, indexB) ==
  IF indexA # -1 /\ indexB # -1 THEN indexA - indexB
  ELSE IF indexA # -1 THEN -1
  ELSE IF indexB # -1 THEN 1
  ELSE 0

CompareByCustomOrder(a, b) ==
  CompareIndex(indexOf(customOrder, a.code), indexOf(customOrder, b.code))

\* Array.prototype.sort is stable: h goes before the first element that the
\* comparator puts after it
RECURSIVE InsertInOrder(_, _)
InsertInOrder(sorted, h) ==
  IF sorted = <<>> THEN <<h>>
  ELSE IF CompareByCustomOrder(Head(sorted), h) > 0 THEN <<h>> \o sorted
  ELSE <<Head(sorted)>> \o InsertInOrder(Tail(sorted), h)

RECURSIVE SortByCustomOrder(_)
SortByCustomOrder(hs) ==
  IF hs = <<>> THEN <<>>
  ELSE InsertInOrder(SortByCustomOrder(SubSeq(hs, 1, Len(hs) - 1)), hs[Len(hs)])

\* holdings.map(enrichHolding).sort(...)
CalculatedHoldings(hs) ==
  SortByCustomOrder([i \in DOMAIN hs |-> enrichHolding(hs[i])])

\* reduce((sum, x) => sum + x, 0)
RECURSIVE SumOf(_)
SumOf(xs) ==
  IF xs = <<>> THEN 0 ELSE SumOf(SubSeq(xs, 1, Len(xs) - 1)) + xs[Len(xs)]

OfType(calc, type) == SelectSeq(calc, LAMBDA h : h.type = type)

PresentValues(calc) == [i \in DOMAIN calc |-> calc[i].presentValue]

Costs(calc) == [i \in DOMAIN calc |-> calc[i].cost]

\* cash is held in hundredths; CashValue is the Number the program adds
CashValue(c) == FLit(c, PriceScale)

\* value / totalInvestedValue * 100
Ratio(value, totalInvestedValue) ==
  FMul(FDiv(FFromInt(value), FFromInt(totalInvestedValue)), FFromInt(100))

\* the summary whose ratios are not guarded against an empty portfolio
SummaryOf_UnguardedRatios(stockValue, bondValue, totalCost, c) ==
  [totalAssets |-> FAdd(FFromInt(stockValue + bondValue), CashValue(c)),
   stockValue |-> stockValue, bondValue |-> bondValue, cashValue |-> CashValue(c),
   totalCost |-> totalCost,
   totalProfit |-> stockValue + bondValue - totalCost,
   totalRoi |-> Roi(stockValue + bondValue - totalCost, totalCost),
   stockRatio |-> Ratio(stockValue, stockValue + bondValue),
   bondRatio |-> Ratio(bondValue, stockValue + bondValue)]

\* the summary whose totalAssets leaves the cash out
SummaryOf_AssetsWithoutCash(stockValue, bondValue, totalCost, c) ==
  [totalAssets |-> FFromInt(stockValue + bondValue),
   stockValue |-> stockValue, bondValue |-> bondValue, cashValue |-> CashValue(c),
   totalCost |-> totalCost,
   totalProfit |-> stockValue + bondValue - totalCost,
   totalRoi |-> Roi(stockValue + bondValue - totalCost, totalCost),
   stockRatio |-> IF stockValue + bondValue = 0 THEN FZero
                  ELSE Ratio(stockValue, stockValue + bondValue),
   bondRatio |-> IF stockValue + bondValue = 0 THEN FZero
                 ELSE Ratio(bondValue, stockValue + bondValue)]

SummaryOf(stockValue, bondValue, totalCost, c) ==
  [totalAssets |-> FAdd(FFromInt(stockValue + bondValue), CashValue(c)),
   stockValue |-> stockValue, bondValue |-> bondValue, cashValue |-> CashValue(c),
   totalCost |-> totalCost,
   totalProfit |-> stockValue + bondValue - totalCost,
   totalRoi |-> Roi(stockValue + bondValue - totalCost, totalCost),
   stockRatio |-> IF stockValue + bondValue = 0 THEN FZero
                  ELSE Ratio(stockValue, stockValue + bondValue),
   bondRatio |-> IF stockValue + bondValue = 0 THEN FZero
                 ELSE Ratio(bondValue, stockValue + bondValue)]

Summary(calc, c) ==
  SummaryOf(SumOf(PresentValues(OfType(calc, STOCK))),
            SumOf(PresentValues(OfType(calc, BOND))),
            SumOf(Costs(calc)), c)

\* useMemo(..., [calculatedHoldings, cash]) reading only calculatedHoldings
summaryMemo_DepsOmitCash(old, calc, c, holdingsSet, cashSet) ==
  IF holdingsSet THEN Summary(calc, c) ELSE old

\* useMemo(..., [calculatedHoldings, cash]): recomputed on the render after a
\* handler has set the holdings or the cash
summaryMemo(old, calc, c, holdingsSet, cashSet) ==
  IF holdingsSet \/ cashSet THEN Summary(calc, c) ELSE old

(***************************************************************************)
(* App.tsx: the state and its handlers.  A handler's action includes the   *)
(* render that follows it: the memoised views and the auto-save effects.   *)
(***************************************************************************)
VARIABLES
  holdings,           \* useState<Holding[]>
  cash,               \* useState<number>, in hundredths
  dividendRecords,    \* useState<DividendRecord[]>
  isUpdatingPrices,   \* useState<boolean>
  calculatedHoldings, \* useMemo(..., [holdings])
  summary,            \* useMemo(..., [calculatedHoldings, cash])
  localStorage,       \* the three keys the auto-save effects write
  fetching,           \* the fetchLivePrices calls awaited by handleRefreshPrices
  now,                \* Date.now()
  alerts,             \* the alert() messages shown so far, oldest first
  download,           \* the lines of the file handleExportCSV saved last
  handled,            \* the number of handler runs so far
  monthlyGoal,        \* DividendTracker: useState<number>, in hundredths
  isEditingGoal,      \* DividendTracker: useState(false)
  tempGoal,           \* DividendTracker: the text of the goal input
  storedGoal,         \* localStorage's dividend_monthly_goal, <<>> when absent
  call,               \* a pure function called on its own, and its argument
  ret                 \* its return value, once it has returned

portfolioVars ==
  <<holdings, cash, dividendRecords, isUpdatingPrices, calculatedHoldings,
    summary, localStorage, fetching, now, alerts, download, handled>>

goalVars == <<monthlyGoal, isEditingGoal, tempGoal, storedGoal>>

appVars == <<portfolioVars, goalVars>>

calcVars == <<call, ret>>

vars == <<appVars, calcVars>>

\* the handlers run at most MaxHandled times
MaxHandled == 2

\* the records the state starts with when localStorage holds none
INITIAL_DIVIDENDS ==
  << [id |-> "1", date |-> "2023-10-20", ticker |-> "0056", amount |-> 24000,
      note |-> "Q3"],
     [id |-> "2", date |-> "2023-11-15", ticker |-> "00878", amount |-> 12000,
      note |-> ""] >>

\* the auto-save effects: each key holds the text of the value it was given
Saved(hs, c, recs) ==
  [portfolio_holdings |-> hs, portfolio_cash |-> c, dividend_records |-> recs]

\* what localStorage holds when the page loads: nothing, or what an earlier
\* session saved (a holding added back after its deletion, a record with an
\* ex-dividend date, notes with commas and double quotes)
StoredAtLoad ==
  { Saved(INITIAL_HOLDINGS, INITIAL_CASH * PriceScale, INITIAL_DIVIDENDS),
    Saved(<< INITIAL_HOLDINGS[2], INITIAL_HOLDINGS[1] >>, 30000000,
          << [id |-> "7", date |-> "2024-01-15", exDividendDate |-> "2023-12-18",
              ticker |-> "0050", amount |-> 30000, note |-> "say \"hi\", ok"],
             [id |-> "1", date |-> "2023-10-20", ticker |-> "0056", amount |-> 24000,
              note |-> "\"Q3\""] >>),
    Saved(<<>>, 0, <<>>) }

\* the first render: the three useState initialisers read localStorage, and
\* fall back to the defaults when it holds nothing
InitApp ==
  /\ localStorage \in StoredAtLoad
  /\ holdings = localStorage.portfolio_holdings
  /\ cash = localStorage.portfolio_cash
  /\ dividendRecords = localStorage.dividend_records
  /\ isUpdatingPrices = FALSE
  /\ calculatedHoldings = CalculatedHoldings(holdings)
  /\ summary = Summary(calculatedHoldings, cash)
  /\ fetching = <<>>
  /\ alerts = <<>>
  /\ download = <<>>
  /\ now = 1000  \* Date.now() at the first render, in a unit that keeps it small
  /\ handled = 0

\* the render after setHoldings(hs)
RenderHoldings(hs) ==
  /\ holdings' = hs
  /\ calculatedHoldings' = CalculatedHoldings(hs)
  /\ summary' = summaryMemo(summary, calculatedHoldings', cash, TRUE, FALSE)
  /\ localStorage' = [localStorage EXCEPT !.portfolio_holdings = hs]
  /\ UNCHANGED cash

\* the render after setCash(c)
RenderCash(c) ==
  /\ cash' = c
  /\ summary' = summaryMemo(summary, calculatedHoldings, c, FALSE, TRUE)
  /\ localStorage' = [localStorage EXCEPT !.portfolio_cash = c]
  /\ UNCHANGED <<holdings, calculatedHoldings>>

Handle ==
  /\ handled < MaxHandled
  /\ handled' = handled + 1
  /\ UNCHANGED <<calcVars, goalVars>>

\* an id, a field and the value typed into the table's input for it
Edits ==
  { [id |-> "1", field |-> "quantity", value |-> 0],
    [id |-> "3", field |-> "currentPrice", value |-> 2549],
    [id |-> "2", field |-> "avgPrice", value |-> -1000] }

handleUpdateHolding(id, field, value) ==
  /\ Handle
  /\ RenderHoldings([i \in DOMAIN holdings |->
                       IF holdings[i].id = id
                         THEN [holdings[i] EXCEPT ![field] = value]
                         ELSE holdings[i]])
  /\ UNCHANGED <<dividendRecords, isUpdatingPrices, fetching, now, alerts, download>>

\* what the add form submits, but for the id
NewHoldings ==
  { [name |-> "Test Stock", code |-> "T1", type |-> STOCK,
     quantity |-> 1000, avgPrice |-> 2549, currentPrice |-> 2000],
    [name |-> "Test Bond", code |-> "T2B", type |-> BOND,
     quantity |-> 0, avgPrice |-> 0, currentPrice |-> 1000] }

\* id: Date.now().toString()
WithId(h, t) ==
  [id |-> ToString(t), name |-> h.name, code |-> h.code, type |-> h.type,
   quantity |-> h.quantity, avgPrice |-> h.avgPrice, currentPrice |-> h.currentPrice]

handleAddHolding(newHolding) ==
  /\ Handle
  /\ RenderHoldings(holdings \o <<newHolding>>)
  /\ UNCHANGED <<dividendRecords, isUpdatingPrices, fetching, alerts, download>>

\* the add form's submit: the clock has moved on since the last one
handleAddSubmit(h) ==
  /\ now' = now + 1
  /\ handleAddHolding(WithId(h, now'))

DeletedIds == {"4", "6"}

handleDeleteHolding(id) ==
  /\ Handle
  /\ RenderHoldings(SelectSeq(holdings, LAMBDA h : h.id # id))
  /\ UNCHANGED <<dividendRecords, isUpdatingPrices, fetching, now, alerts, download>>

CashInputs == {0, 50050}

handleUpdateCash(value) ==
  /\ Handle
  /\ RenderCash(value)
  /\ UNCHANGED <<dividendRecords, isUpdatingPrices, fetching, now, alerts, download>>

RecordInputs ==
  { <<>>,
    INITIAL_DIVIDENDS \o
      << [id |-> "3", date |-> "2024-01-15", ticker |-> "0050", amount |-> 5000,
          note |-> "a,b"] >> }

handleUpdateRecords(records) ==
  /\ Handle
  /\ dividendRecords' = records
  /\ localStorage' = [localStorage EXCEPT !.dividend_records = records]
  /\ UNCHANGED <<holdings, cash, calculatedHoldings, summary, isUpdatingPrices,
                 fetching, now, alerts, download>>

\* holdings.map(h => h.code)
Codes(hs) == [i \in DOMAIN hs |-> hs[i].code]

\* handleRefreshPrices up to its await; both refresh buttons are disabled
\* while isUpdatingPrices
RefreshPricesCall ==
  /\ ~isUpdatingPrices
  /\ Handle
  /\ IF holdings = <<>>
       THEN UNCHANGED <<isUpdatingPrices, fetching>>
       ELSE /\ isUpdatingPrices' = TRUE
            /\ fetching' = fetching \o <<Codes(holdings)>>
  /\ UNCHANGED <<holdings, cash, dividendRecords, calculatedHoldings, summary,
                 localStorage, now, alerts, download>>

QuotedPrices == {7000}

\* a resolved fetchLivePrices: a price > 0 for at least one code
Quotes(codes) ==
  { [c \in D |-> p] : D \in {{codes[1]}, {codes[i] : i \in DOMAIN codes}},
                      p \in QuotedPrices }

\* what the call awaited first may resolve with
Replies == IF fetching = <<>> THEN {} ELSE Quotes(Head(fetching))

\* newPrices[code], undefined for a code without a quote
PriceOf(newPrices, code) ==
  IF code \in DOMAIN newPrices THEN newPrices[code] ELSE 0

\* an updater that keeps only the holdings it has a quote for
WithNewPrices_DropsUnquoted(prev, newPrices) ==
  SelectSeq([i \in DOMAIN prev |->
               [prev[i] EXCEPT !.currentPrice = PriceOf(newPrices, prev[i].code)]],
            LAMBDA h : h.currentPrice # 0)

\* prev.map(h => newPrices[h.code] ? { ...h, currentPrice: newPrices[h.code] } : h)
WithNewPrices(prev, newPrices) ==
  [i \in DOMAIN prev |->
     IF PriceOf(newPrices, prev[i].code) # 0
       THEN [prev[i] EXCEPT !.currentPrice = PriceOf(newPrices, prev[i].code)]
       ELSE prev[i]]

\* the holdings the updater counted
updatedCount(prev, newPrices) ==
  Cardinality({i \in DOMAIN prev : PriceOf(newPrices, prev[i].code) # 0})

\* the alert that follows setHoldings
UpdateAlert(count) ==
  IF count > 0 THEN "updated " \o ToString(count) ELSE "no latest price"

\* handleRefreshPrices from the resolved await to its end.  updatedCount is
\* incremented by the updater given to setHoldings, which React runs either
\* at once (eager) or at the next render, after the count has been tested
RefreshPricesResolved(newPrices, eager) ==
  /\ fetching # <<>>
  /\ fetching' = Tail(fetching)
  /\ RenderHoldings(WithNewPrices(holdings, newPrices))
  /\ alerts' = Append(alerts, UpdateAlert(IF eager THEN updatedCount(holdings, newPrices)
                                                   ELSE 0))
  /\ isUpdatingPrices' = FALSE
  /\ UNCHANGED <<dividendRecords, now, download, handled, calcVars, goalVars>>

\* a rejected refresh that tells the user nothing
RefreshPricesRejected_Silent ==
  /\ fetching # <<>>
  /\ fetching' = Tail(fetching)
  /\ isUpdatingPrices' = FALSE
  /\ UNCHANGED <<holdings, cash, dividendRecords, calculatedHoldings, summary,
                 localStorage, now, alerts, download, handled, calcVars, goalVars>>

\* a rejected refresh without the finally clause
RefreshPricesRejected_NoFinally ==
  /\ fetching # <<>>
  /\ fetching' = Tail(fetching)
  /\ alerts' = Append(alerts, "update failed")
  /\ UNCHANGED <<holdings, cash, dividendRecords, isUpdatingPrices, calculatedHoldings,
                 summary, localStorage, now, download, handled, calcVars, goalVars>>

\* handleRefreshPrices from the rejected await to its end
RefreshPricesRejected ==
  /\ fetching # <<>>
  /\ fetching' = Tail(fetching)
  /\ alerts' = Append(alerts, "update failed")
  /\ isUpdatingPrices' = FALSE
  /\ UNCHANGED <<holdings, cash, dividendRecords, calculatedHoldings, summary,
                 localStorage, now, download, handled, calcVars, goalVars>>

(***************************************************************************)
(* App.tsx: handleImportCSV.  A file is its lines, a line its parts        *)
(* between commas.  A part is a text, or a numeral given by its value (a   *)
(* price or the cash in hundredths).                                       *)
(***************************************************************************)
Txt(text) == [text |-> text]

Num(value) == [num |-> value]

IsNumeral(part) == DOMAIN part = {"num"}

NaN == "NaN"

parseFloat(part) == IF IsNumeral(part) THEN part.num ELSE NaN

\* the characters of a part
Text(part) == IF IsNumeral(part) THEN ToString(part.num) ELSE part.text

\* a percentage printed by toFixed, given by the number it prints
Percent(value) == [percent |-> value]

\* text.split(sep), part being the text read since the last separator
RECURSIVE SplitFrom(_, _, _)
SplitFrom(text, sep, part) ==
  IF text = "" THEN <<part>>
  ELSE IF Head(text) = sep THEN <<part>> \o SplitFrom(Tail(text), sep, "")
  ELSE SplitFrom(Tail(text), sep, part \o Head(text))

split(text, sep) == SplitFrom(text, sep, "")

\* text.replace(/"/g, '""')
RECURSIVE DoubleQuotes(_)
DoubleQuotes(text) ==
  IF text = "" THEN ""
  ELSE IF Head(text) = "\"" THEN "\"\"" \o DoubleQuotes(Tail(text))
  ELSE Head(text) \o DoubleQuotes(Tail(text))

\* text.replace(/""/g, '"')
RECURSIVE UndoubleQuotes(_)
UndoubleQuotes(text) ==
  IF Len(text) < 2 THEN text
  ELSE IF SubSeq(text, 1, 2) = "\"\""
    THEN "\"" \o UndoubleQuotes(SubSeq(text, 3, Len(text)))
  ELSE Head(text) \o UndoubleQuotes(Tail(text))

\* the note as the import reads it: without its quotes when it starts and
\* ends with one
Unquoted(note) ==
  IF note # "" /\ Head(note) = "\"" /\ SubSeq(note, Len(note), Len(note)) = "\""
    THEN UndoubleQuotes(SubSeq(note, 2, Len(note) - 1))
    ELSE note

SectionMarkers ==
  {"[SUMMARY]", "[CASH]", "[HOLDINGS]", "[DIVIDENDS]", "[YEARLY_PERFORMANCE]"}

\* the line is one of the section markers
IsMarker(parts) ==
  Len(parts) = 1 /\ ~IsNumeral(parts[1]) /\ parts[1].text \in SectionMarkers

\* if (!trimmed) return
IsBlank(parts) == parts = <<>> \/ parts = <<Txt("")>>

\* trimmed.startsWith('id,')
IsHeaderRow(parts) == Len(parts) > 1 /\ parts[1] = Txt("id")

\* the text after the fourth comma, its commas included
RECURSIVE JoinParts(_)
JoinParts(parts) ==
  IF Len(parts) = 1 THEN Text(parts[1])
  ELSE Text(parts[1]) \o "," \o JoinParts(Tail(parts))

HoldingRow(parts) ==
  [id |-> Text(parts[1]), name |-> Text(parts[2]), code |-> Text(parts[3]),
   type |-> Text(parts[4]), quantity |-> parseFloat(parts[5]),
   avgPrice |-> parseFloat(parts[6]), currentPrice |-> parseFloat(parts[7])]

DividendRow(parts) ==
  [id |-> Text(parts[1]), date |-> Text(parts[2]), ticker |-> Text(parts[3]),
   amount |-> parseFloat(parts[4]),
   note |-> Unquoted(JoinParts(SubSeq(parts, 5, Len(parts))))]

\* the body of lines.forEach; tempCash is <<>> for null
ImportLine(acc, parts) ==
  IF IsBlank(parts) THEN acc
  ELSE IF IsMarker(parts) THEN [acc EXCEPT !.section = parts[1].text]
  ELSE IF acc.section \in {"[SUMMARY]", "[YEARLY_PERFORMANCE]"} THEN acc
  ELSE IF acc.section = "[CASH]"
    THEN IF IsNumeral(parts[1])
           THEN [acc EXCEPT !.tempCash = <<parseFloat(parts[1])>>]
           ELSE acc
  ELSE IF acc.section = "[HOLDINGS]"
    THEN IF IsHeaderRow(parts) THEN acc
         ELSE IF Len(parts) >= 7
           THEN [acc EXCEPT !.tempHoldings = @ \o <<HoldingRow(parts)>>]
           ELSE acc
  ELSE IF acc.section = "[DIVIDENDS]"
    THEN IF IsHeaderRow(parts) THEN acc
         ELSE IF Len(parts) >= 5
           THEN [acc EXCEPT !.tempDividends = @ \o <<DividendRow(parts)>>]
           ELSE acc
  ELSE acc

RECURSIVE ImportLines(_, _)
ImportLines(acc, lines) ==
  IF lines = <<>> THEN acc
  ELSE ImportLines(ImportLine(acc, Head(lines)), Tail(lines))

ParseCSV(lines) ==
  ImportLines([section |-> "", tempCash |-> <<>>, tempHoldings |-> <<>>,
               tempDividends |-> <<>>], lines)

\* tempHoldings.length === 0 && !tempCash && tempDividends.length === 0
NothingParsed(t) ==
  /\ t.tempHoldings = <<>>
  /\ t.tempCash \in {<<>>, <<0>>}
  /\ t.tempDividends = <<>>

(***************************************************************************)
(* App.tsx: handleExportCSV.  The byte order mark that starts the file is  *)
(* white space to trim(), so the first line reads as its marker.           *)
(***************************************************************************)
\* the parts of a line of text
Parts(text) == [i \in DOMAIN split(text, ",") |-> Txt(split(text, ",")[i])]

\* parseInt of a text of decimal digits
RECURSIVE parseIntFrom(_, _)
parseIntFrom(text, n) ==
  IF text = "" THEN n
  ELSE parseIntFrom(Tail(text),
                    10 * n + (CHOOSE d \in 0..9 : ToString(d) = Head(text)))

parseInt(text) == parseIntFrom(text, 0)

\* the offsets from UTC, in hours, of the time zones a browser may be in
TimeZones == {8, -5}

\* new Date(date), date being YYYY-MM-DD, is midnight UTC of that day: in a
\* zone behind UTC the local getters see the evening of the day before
LocalDayBefore(date, zone) == zone < 0 /\ split(date, "-")[3] = "01"

\* new Date(date).getMonth(): 0 for January
getMonth(date, zone) ==
  IF LocalDayBefore(date, zone)
    THEN (parseInt(split(date, "-")[2]) + 10) % 12
    ELSE parseInt(split(date, "-")[2]) - 1

\* new Date(date).getFullYear()
getFullYear(date, zone) ==
  IF LocalDayBefore(date, zone) /\ split(date, "-")[2] = "01"
    THEN parseInt(split(date, "-")[1]) - 1
    ELSE parseInt(split(date, "-")[1])

\* ((amount - prevAmount) / prevAmount) * 100
Growth(amount, prevAmount) ==
  FMul(FDiv(FFromInt(amount - prevAmount), FFromInt(prevAmount)), FFromInt(100))

\* the keys of a map of years, sorted by (a, b) => a - b
RECURSIVE Ascending(_)
Ascending(years) ==
  IF years = {} THEN <<>>
  ELSE <<CHOOSE y \in years : \A z \in years : y <= z>>
         \o Ascending(years \ {CHOOSE y \in years : \A z \in years : y <= z})

sortedYears(records, zone) ==
  Ascending({getFullYear(records[i].date, zone) : i \in DOMAIN records})

\* yearlyMap.get(year) || 0
YearlyAmount(records, year, zone) ==
  SumOf([i \in DOMAIN SelectSeq(records, LAMBDA r : getFullYear(r.date, zone) = year) |->
           SelectSeq(records, LAMBDA r : getFullYear(r.date, zone) = year)[i].amount])

\* the line of [YEARLY_PERFORMANCE] for a year, prevAmount being <<>> for
\* the first year
YearlyLine(year, amount, prevAmount) ==
  << Num(year), Num(amount),
     IF prevAmount # <<>> /\ prevAmount[1] > 0
       THEN Percent(Growth(amount, prevAmount[1])) ELSE Txt("-"),
     IF prevAmount # <<>> THEN Num(amount - prevAmount[1]) ELSE Txt("-") >>

YearlyLines(records, years, zone) ==
  [index \in DOMAIN years |->
     YearlyLine(years[index], YearlyAmount(records, years[index], zone),
                IF index > 1 THEN <<YearlyAmount(records, years[index - 1], zone)>>
                  ELSE <<>>)]

SummaryLine(s) ==
  << Num(s.totalAssets), Num(s.stockValue), Num(s.bondValue), Num(s.cashValue),
     Num(s.totalCost), Num(s.totalProfit), Percent(s.totalRoi),
     Percent(s.stockRatio), Percent(s.bondRatio) >>

HoldingLine(h) ==
  << Txt(h.id), Txt(h.name), Txt(h.code), Txt(h.type), Num(h.quantity),
     Num(h.avgPrice), Num(h.currentPrice), Num(h.cost), Num(h.presentValue),
     Num(h.profit), Percent(h.roi) >>

\* `"${(r.note || '').replace(/"/g, '""')}"`
safeNote(r) ==
  "\"" \o DoubleQuotes(IF "note" \in DOMAIN r THEN r.note ELSE "") \o "\""

DividendLine(r) ==
  <<Txt(r.id), Txt(r.date), Txt(r.ticker), Num(r.amount)>> \o Parts(safeNote(r))

\* content, line by line, in a browser of time zone `zone'
ExportCSV(s, c, calc, records, zone) ==
  << <<Txt("[SUMMARY]")>>,
     <<Txt("Total Assets"), Txt("Stock Value"), Txt("Bond Value"), Txt("Cash Value"),
       Txt("Total Cost"), Txt("Total Profit"), Txt("Total ROI"), Txt("Stock Ratio"),
       Txt("Bond Ratio")>>,
     SummaryLine(s), <<Txt("")>>,
     <<Txt("[CASH]")>>, <<Num(c)>>, <<Txt("")>>,
     <<Txt("[HOLDINGS]")>>,
     <<Txt("id"), Txt("name"), Txt("code"), Txt("type"), Txt("quantity"), Txt("avgPrice"),
       Txt("currentPrice"), Txt("cost"), Txt("presentValue"), Txt("profit"), Txt("roi")>> >>
  \o [i \in DOMAIN calc |-> HoldingLine(calc[i])]
  \o << <<Txt("")>>, <<Txt("[YEARLY_PERFORMANCE]")>>,
         <<Txt("Year"), Txt("Total Amount"), Txt("YoY Growth"), Txt("YoY Diff")>> >>
  \o YearlyLines(records, sortedYears(records, zone), zone)
  \o << <<Txt("")>>, <<Txt("[DIVIDENDS]")>>, <<Txt("id"), Txt("date"), Txt("ticker"), Txt("amount"), Txt("note")>> >>
  \o [i \in DOMAIN records |-> DividendLine(records[i])]
  \o << <<Txt("")>> >>

handleExportCSV(zone) ==
  /\ Handle
  /\ download' = ExportCSV(summary, cash, calculatedHoldings, dividendRecords, zone)
  /\ UNCHANGED <<holdings, cash, dividendRecords, isUpdatingPrices, calculatedHoldings,
                 summary, localStorage, fetching, now, alerts>>

\* an export of a small portfolio, a file with a cash section only, a file
\* whose only datum is a cash of 0, and a file with a holding of a type that
\* is neither STOCK nor BOND and a dividend row
ImportFiles ==
  { << <<Txt("[SUMMARY]")>>, <<Txt("totalAssets"), Num(31883600)>>,
       <<Txt("[CASH]")>>, <<Num(25000000)>>,
       <<Txt("[HOLDINGS]")>>,
       <<Txt("id"), Txt("name"), Txt("code"), Txt("type"), Txt("quantity"), Txt("avgPrice"),
         Txt("currentPrice"), Txt("cost"), Txt("presentValue")>>,
       <<Txt("3"), Txt("Yuanta US Treasury 20Y"), Txt("00679B"), Txt("BOND"),
         Num(1000), Num(2762), Num(2727), Num(27631), Num(27259)>>,
       <<Txt("1"), Txt("Yuanta Taiwan 50"), Txt("0050"), Txt("STOCK"),
         Num(500), Num(6235), Num(6370), Num(31187), Num(31805)>>,
       <<Txt("9"), Txt("Short row"), Txt("0056"), Txt("STOCK"), Num(100), Num(3596)>>,
       <<Txt("")>>,
       <<Txt("[DIVIDENDS]")>>,
       <<Txt("id"), Txt("date"), Txt("ticker"), Txt("amount"), Txt("note")>>,
       <<Txt("1"), Txt("2023-10-20"), Txt("0056"), Num(24000), Txt("Q3"), Txt(" paid")>> >>,
    << <<Txt("[CASH]")>>, <<Num(12345)>> >>,
    << <<Txt("[CASH]")>>, <<Num(0)>> >>,
    << <<Txt("[HOLDINGS]")>>,
       <<Txt("8"), Txt("Yuanta Gold Futures"), Txt("00635U"), Txt("ETF"),
         Num(100), Num(2000), Num(2100)>>,
       <<Txt("[DIVIDENDS]")>>,
       <<Txt("5"), Txt("2022-06-30"), Txt("00919"), Num(0), Txt("\"\"")>> >> }

\* the state set by a confirmed import
Imported(t, c) ==
  /\ holdings' = t.tempHoldings
  /\ dividendRecords' = t.tempDividends
  /\ cash' = c
  /\ calculatedHoldings' = CalculatedHoldings(t.tempHoldings)
  /\ summary' = summaryMemo(summary, calculatedHoldings', c, TRUE, t.tempCash # <<>>)
  /\ localStorage' = Saved(t.tempHoldings, c, t.tempDividends)

\* an import that does not wait for the answer to confirm()
ImportParsed_IgnoresAnswer(t, confirmed) ==
  IF NothingParsed(t)
    THEN /\ alerts' = Append(alerts, "import failed: format invalid")
         /\ UNCHANGED <<holdings, cash, dividendRecords, calculatedHoldings,
                         summary, localStorage>>
    ELSE /\ Imported(t, IF t.tempCash # <<>> THEN t.tempCash[1] ELSE cash)
         /\ alerts' = Append(alerts, "import succeeded")

\* an import that empties the cash when the file gives none
ImportParsed_ResetsCash(t, confirmed) ==
  IF NothingParsed(t)
    THEN /\ alerts' = Append(alerts, "import failed: format invalid")
         /\ UNCHANGED <<holdings, cash, dividendRecords, calculatedHoldings,
                         summary, localStorage>>
  ELSE IF ~confirmed
    THEN UNCHANGED <<holdings, cash, dividendRecords, calculatedHoldings,
                     summary, localStorage, alerts>>
    ELSE /\ Imported(t, IF t.tempCash # <<>> THEN t.tempCash[1] ELSE 0)
         /\ alerts' = Append(alerts, "import succeeded")

\* from the test that throws to the end of the catch
ImportParsed(t, confirmed) ==
  IF NothingParsed(t)
    THEN /\ alerts' = Append(alerts, "import failed: format invalid")
         /\ UNCHANGED <<holdings, cash, dividendRecords, calculatedHoldings,
                         summary, localStorage>>
  ELSE IF ~confirmed
    THEN UNCHANGED <<holdings, cash, dividendRecords, calculatedHoldings,
                     summary, localStorage, alerts>>
    ELSE /\ Imported(t, IF t.tempCash # <<>> THEN t.tempCash[1] ELSE cash)
         /\ alerts' = Append(alerts, "import succeeded")

\* reader.onload, confirmed being the answer to confirm()
handleImportCSV(file, confirmed) ==
  /\ Handle
  /\ ImportParsed(ParseCSV(file), confirmed)
  /\ UNCHANGED <<isUpdatingPrices, fetching, now, download>>

(***************************************************************************)
(* Dashboard.tsx: DividendTracker, the monthly goal.  Amounts are in       *)
(* hundredths; the text of a number is the token Num of it.                *)
(***************************************************************************)
DefaultGoal == 20000 * PriceScale

\* useState initialisers: saved ? parseFloat(saved) : 20000, false, and
\* monthlyGoal.toString()
GoalLoaded(saved) ==
  /\ storedGoal = saved
  /\ monthlyGoal = IF saved # <<>> THEN parseFloat(saved[1]) ELSE DefaultGoal
  /\ isEditingGoal = FALSE
  /\ tempGoal = Num(monthlyGoal)

\* the target button: setIsEditingGoal(!isEditingGoal)
ToggleEditingGoal ==
  /\ isEditingGoal' = ~isEditingGoal
  /\ UNCHANGED <<monthlyGoal, tempGoal, storedGoal, portfolioVars, calcVars>>

\* what the user may leave in the goal input: nothing, a sign, 0, -5, 0.5,
\* 25000, 30000
GoalInputs ==
  {Txt(""), Txt("-"), Num(0), Num(-500), Num(50), Num(2500000), Num(3000000)}

\* onChange of the goal input, shown while isEditingGoal
ChangeTempGoal(text) ==
  /\ isEditingGoal
  /\ tempGoal' = text
  /\ UNCHANGED <<monthlyGoal, isEditingGoal, storedGoal, portfolioVars, calcVars>>

\* handleSaveGoal saving whatever is a number
handleSaveGoal_AcceptsZero ==
  /\ isEditingGoal
  /\ IF IsNumeral(tempGoal)
       THEN /\ monthlyGoal' = parseFloat(tempGoal)
            /\ storedGoal' = <<Num(parseFloat(tempGoal))>>
            /\ isEditingGoal' = FALSE
       ELSE UNCHANGED <<monthlyGoal, storedGoal, isEditingGoal>>
  /\ UNCHANGED <<tempGoal, portfolioVars, calcVars>>

\* the OK button, shown while isEditingGoal
handleSaveGoal ==
  /\ isEditingGoal
  /\ IF IsNumeral(tempGoal) /\ parseFloat(tempGoal) > 0
       THEN /\ monthlyGoal' = parseFloat(tempGoal)
            /\ storedGoal' = <<Num(parseFloat(tempGoal))>>
            /\ isEditingGoal' = FALSE
       ELSE UNCHANGED <<monthlyGoal, storedGoal, isEditingGoal>>
  /\ UNCHANGED <<tempGoal, portfolioVars, calcVars>>

\* the tracker mounted again, as after a reload of the page
MountTracker ==
  /\ monthlyGoal' = IF storedGoal # <<>> THEN parseFloat(storedGoal[1]) ELSE DefaultGoal
  /\ isEditingGoal' = FALSE
  /\ tempGoal' = Num(monthlyGoal')
  /\ UNCHANGED <<storedGoal, portfolioVars, calcVars>>

\* const avgMonthlyIncome = totalInSelectedYear / 12;
\* const goalProgress = (avgMonthlyIncome / monthlyGoal) * 100
goalProgress(total, goal) ==
  FMul(FDiv(FDiv(FFromInt(total), FFromInt(12)), FLit(goal, PriceScale)), FFromInt(100))

\* the goals the application may have saved on an earlier visit
StoredGoals == {<<>>, <<Num(1500000)>>}

NoCall ==
  /\ call = [fn |-> "none", arg |-> <<>>]
  /\ ret = <<>>

Init == InitApp /\ NoCall /\ GoalLoaded(<<>>)

Next ==
  \/ \E e \in Edits : handleUpdateHolding(e.id, e.field, e.value)
  \/ \E h \in NewHoldings : handleAddSubmit(h)
  \/ \E id \in DeletedIds : handleDeleteHolding(id)
  \/ \E value \in CashInputs : handleUpdateCash(value)
  \/ \E records \in RecordInputs : handleUpdateRecords(records)
  \/ RefreshPricesCall
  \/ \E newPrices \in Replies, eager \in BOOLEAN : RefreshPricesResolved(newPrices, eager)
  \/ RefreshPricesRejected
  \/ \E zone \in TimeZones : handleExportCSV(zone)
  \/ \E file \in ImportFiles \cup {download}, confirmed \in BOOLEAN :
       handleImportCSV(file, confirmed)

Spec == Init /\ [][Next]_vars

\* the request a refresh awaits settles: fetchLivePrices resolves or rejects
FetchSettles ==
  \/ RefreshPricesRejected
  \/ \E newPrices \in Replies, eager \in BOOLEAN : RefreshPricesResolved(newPrices, eager)

\* the application when every network request eventually settles
SpecLive == Spec /\ WF_vars(FetchSettles)

\* the tracker alone: the goal edited on any of the stored portfolios
InitGoal == InitApp /\ NoCall /\ \E saved \in StoredGoals : GoalLoaded(saved)

NextGoal ==
  \/ ToggleEditingGoal
  \/ \E text \in GoalInputs : ChangeTempGoal(text)
  \/ handleSaveGoal
  \/ MountTracker

SpecGoal == InitGoal /\ [][NextGoal]_vars

(***************************************************************************)
(* The pure functions called on their own: one call at a time, its         *)
(* argument drawn from the input sets below, then its return value.        *)
(***************************************************************************)
\* quantities are multiples of 25000 up to MaxLots of them, and a single unit
MaxLots == 2

Quantities == {k * 25000 : k \in -MaxLots..MaxLots} \cup {1}

Prices == {-1000, 0, 1000, 2000, 2549}

TestHoldings ==
  {INITIAL_HOLDINGS[i] : i \in DOMAIN INITIAL_HOLDINGS}
    \cup [id : {"t"}, name : {"Test"}, code : {"T"}, type : AssetType,
          quantity : Quantities, avgPrice : Prices, currentPrice : Prices]

\* stockValue and bondValue are small, or those of whole holdings, or the
\* value of a holding with a negative quantity
MaxValue == 12

TestValues == 0..MaxValue \cup {677879, 1399439, -5}

TestSummaries == [stockValue : TestValues, bondValue : TestValues]

\* the functions are called on a first visit
InitCalc == InitApp /\ holdings = INITIAL_HOLDINGS /\ NoCall /\ GoalLoaded(<<>>)

\* no function has been called yet
Idle == call.fn = "none"

CallEnrichHolding(h) ==
  /\ Idle
  /\ call' = [fn |-> "enrichHolding", arg |-> h]
  /\ ret' = <<>>
  /\ UNCHANGED appVars

ReturnEnrichHolding ==
  /\ call.fn = "enrichHolding"
  /\ ret = <<>>
  /\ ret' = <<enrichHolding(call.arg)>>
  /\ UNCHANGED <<call, appVars>>

CallRebalancing(s) ==
  /\ Idle
  /\ call' = [fn |-> "rebalancingCalculations", arg |-> s]
  /\ ret' = <<>>
  /\ UNCHANGED appVars

ReturnRebalancing ==
  /\ call.fn = "rebalancingCalculations"
  /\ ret = <<>>
  /\ ret' = <<rebalancingCalculations(call.arg)>>
  /\ UNCHANGED <<call, appVars>>

(***************************************************************************)
(* api.ts: fetchLivePrices.  The network is what each of the six requests  *)
(* meets: a request is named by its source and the index of its proxy.     *)
(***************************************************************************)
PROXY_PROVIDERS == <<"corsproxy.io", "api.allorigins.win", "api.codetabs.com">>

\* result = {}
NoQuotes == [code \in {} |-> 0]

\* !priceStr || priceStr === '-'
NoPriceStr(priceStr) == priceStr \in {Txt(""), Txt("-")}

\* priceStr of an item of msgArray: z, else the first bid, else the first
\* ask, else y; b and a are given split at '_'
TwsePriceStr(item) ==
  IF ~NoPriceStr(item.z) THEN item.z
  ELSE IF item.b # <<>> /\ ~NoPriceStr(item.b[1]) THEN item.b[1]
  ELSE IF item.a # <<>> /\ ~NoPriceStr(item.a[1]) THEN item.a[1]
  ELSE item.y

\* msgArray.forEach: result[code] = price when !isNaN(price) && price > 0
RECURSIVE TwseQuotes(_)
TwseQuotes(msgArray) ==
  IF msgArray = <<>> THEN NoQuotes
  ELSE IF IsNumeral(TwsePriceStr(msgArray[Len(msgArray)]))
          /\ parseFloat(TwsePriceStr(msgArray[Len(msgArray)])) > 0
    THEN (msgArray[Len(msgArray)].c :> parseFloat(TwsePriceStr(msgArray[Len(msgArray)])))
           @@ TwseQuotes(SubSeq(msgArray, 1, Len(msgArray) - 1))
  ELSE TwseQuotes(SubSeq(msgArray, 1, Len(msgArray) - 1))

\* item.regularMarketPrice || item.previousClose
YahooPrice(item) ==
  IF item.regularMarketPrice # 0 THEN item.regularMarketPrice ELSE item.previousClose

\* quoteResponse.result.forEach: result[code] = price when price is truthy;
\* the symbol is given split at '.'
RECURSIVE YahooQuotes(_)
YahooQuotes(items) ==
  IF items = <<>> THEN NoQuotes
  ELSE IF YahooPrice(items[Len(items)]) # 0
    THEN (items[Len(items)].symbol[1] :> YahooPrice(items[Len(items)]))
           @@ YahooQuotes(SubSeq(items, 1, Len(items) - 1))
  ELSE YahooQuotes(SubSeq(items, 1, Len(items) - 1))

\* the result one pass of the loop over the proxies is left with: empty when
\* fetch rejects, when the response is not ok, when json() throws and when
\* the body has no array of items
ResultOf(source, response) ==
  IF response.rejected \/ ~response.ok \/ response.json = <<>> THEN NoQuotes
  ELSE IF source = "TWSE"
    THEN IF "msgArray" \in DOMAIN response.json[1]
           THEN TwseQuotes(response.json[1].msgArray) ELSE NoQuotes
  ELSE IF "quoteResponse" \in DOMAIN response.json[1]
          /\ "result" \in DOMAIN response.json[1].quoteResponse
    THEN YahooQuotes(response.json[1].quoteResponse.result) ELSE NoQuotes

\* for (const createProxyUrl of PROXY_PROVIDERS) from the i-th proxy on, and
\* the throw after it: what is returned or thrown, and the requests made
RECURSIVE fetchThrough(_, _, _)
fetchThrough(source, net, i) ==
  IF i > Len(PROXY_PROVIDERS)
    THEN [threw |-> TRUE, prices |-> NoQuotes, attempts |-> <<>>]
  ELSE IF ResultOf(source, net[<<source, i>>]) # NoQuotes
    THEN [threw |-> FALSE, prices |-> ResultOf(source, net[<<source, i>>]),
          attempts |-> << <<source, PROXY_PROVIDERS[i]>> >>]
  ELSE [fetchThrough(source, net, i + 1)
          EXCEPT !.attempts = << <<source, PROXY_PROVIDERS[i]>> >> \o @]

fetchFromTwse(net) == fetchThrough("TWSE", net, 1)

fetchFromYahoo(net) == fetchThrough("Yahoo", net, 1)

\* the fallback asked first
fetchLivePrices_YahooFirst(net) ==
  IF ~fetchFromYahoo(net).threw THEN fetchFromYahoo(net)
  ELSE [fetchFromTwse(net) EXCEPT !.attempts = fetchFromYahoo(net).attempts \o @]

\* try fetchFromTwse, and fetchFromYahoo when it throws
fetchLivePrices(net) ==
  IF ~fetchFromTwse(net).threw THEN fetchFromTwse(net)
  ELSE [fetchFromYahoo(net) EXCEPT !.attempts = fetchFromTwse(net).attempts \o @]

\* the six requests, in no order
Requests == {"TWSE", "Yahoo"} \X (1..3)

\* what a request may meet
Outcomes == {"rejected", "not ok", "no quote", "quotes"}

\* the price a test response quotes, one per request
TestPrice(source, i) == 7000 + 10 * i + (IF source = "Yahoo" THEN 100 ELSE 0)

\* a body of TWSE with a quote: as last trade, as best bid, or as best ask
\* after an item that has no price at all
TwseBody(i, price) ==
  [msgArray |->
     << [c |-> "00919", z |-> Txt("-"), b |-> <<Txt("-"), Txt("")>>, a |-> <<>>,
         y |-> Txt("")],
        [c |-> "0050",
         z |-> IF i = 1 THEN Num(price) ELSE Txt("-"),
         b |-> IF i = 2 THEN <<Num(price), Num(price - 5)>> ELSE <<>>,
         a |-> IF i = 3 THEN <<Num(price)>> ELSE <<Txt("-")>>,
         y |-> Num(6900)] >>]

\* a body without a usable quote: json() throws, no array, or no price
UnquotedBody(source, i) ==
  IF i = 1 THEN <<>>
  ELSE IF i = 2 THEN <<[rtcode |-> "0000"]>>
  ELSE IF source = "TWSE"
    THEN <<[msgArray |-> << [c |-> "0050", z |-> Txt("-"), b |-> <<>>, a |-> <<>>,
                            y |-> Txt("-")] >>]>>
  ELSE <<[quoteResponse |->
            [result |-> << [symbol |-> <<"0050", "TW">>, regularMarketPrice |-> 0,
                            previousClose |-> 0] >>]]>>

YahooBody(i, price) ==
  [quoteResponse |->
     [result |-> << [symbol |-> <<"0050", "TW">>,
                     regularMarketPrice |-> IF i = 1 THEN price ELSE 0,
                     previousClose |-> price - 5] >>]]

\* the response of fetch for an outcome
TestResponse(source, i, outcome) ==
  [rejected |-> outcome = "rejected",
   ok |-> outcome \in {"no quote", "quotes"},
   json |-> IF outcome = "no quote" THEN UnquotedBody(source, i)
            ELSE IF outcome # "quotes" THEN <<>>
            ELSE IF source = "TWSE" THEN <<TwseBody(i, TestPrice(source, i))>>
            ELSE <<YahooBody(i, TestPrice(source, i))>>]

\* the network that meets each request with the outcome given for it
Network(outcomes) ==
  [r \in Requests |-> TestResponse(r[1], r[2], outcomes[r])]

CallFetchLivePrices(outcomes) ==
  /\ Idle
  /\ call' = [fn |-> "fetchLivePrices", arg |-> outcomes]
  /\ ret' = <<>>
  /\ UNCHANGED appVars

ReturnFetchLivePrices ==
  /\ call.fn = "fetchLivePrices"
  /\ ret = <<>>
  /\ ret' = <<fetchLivePrices(Network(call.arg))>>
  /\ UNCHANGED <<call, appVars>>

(***************************************************************************)
(* Dashboard.tsx: the yearly dividend performance table.                   *)
(***************************************************************************)
\* the reducer of yearlyTrendData: acc after a record of the year
TrendWith(acc, year, amount) ==
  IF \E i \in DOMAIN acc : acc[i].year = year
    THEN [i \in DOMAIN acc |->
            IF acc[i].year = year THEN [acc[i] EXCEPT !.amount = @ + amount] ELSE acc[i]]
    ELSE Append(acc, [year |-> year, amount |-> amount])

\* filteredRecords.reduce(...), the year being curr.date.split('-')[0]
RECURSIVE TrendOf(_)
TrendOf(records) ==
  IF records = <<>> THEN <<>>
  ELSE TrendWith(TrendOf(SubSeq(records, 1, Len(records) - 1)),
                 split(records[Len(records)].date, "-")[1],
                 records[Len(records)].amount)

\* sort((a, b) => parseInt(a.year) - parseInt(b.year))
RECURSIVE InsertByYear(_, _)
InsertByYear(sorted, item) ==
  IF sorted = <<>> THEN <<item>>
  ELSE IF parseInt(Head(sorted).year) - parseInt(item.year) > 0 THEN <<item>> \o sorted
  ELSE <<Head(sorted)>> \o InsertByYear(Tail(sorted), item)

RECURSIVE SortByYear(_)
SortByYear(items) ==
  IF items = <<>> THEN <<>>
  ELSE InsertByYear(SortByYear(SubSeq(items, 1, Len(items) - 1)), items[Len(items)])

\* the trend left in the order the years are first met
yearlyTrendData_Unsorted(records, trendTicker) ==
  TrendOf(IF trendTicker = "ALL" THEN records
          ELSE SelectSeq(records, LAMBDA r : r.ticker = trendTicker))

yearlyTrendData(records, trendTicker) ==
  SortByYear(TrendOf(IF trendTicker = "ALL" THEN records
                     ELSE SelectSeq(records, LAMBDA r : r.ticker = trendTicker)))

\* yearlyTrendData.map(...).reverse(): the k-th row is made from the item
\* at index Len - k, counted from 0, and prev is the item before it
yearlyPerformance(trend) ==
  [k \in DOMAIN trend |->
     [year |-> trend[Len(trend) + 1 - k].year,
      amount |-> trend[Len(trend) + 1 - k].amount,
      growth |-> IF Len(trend) - k >= 1 /\ trend[Len(trend) - k].amount > 0
                   THEN Growth(trend[Len(trend) + 1 - k].amount, trend[Len(trend) - k].amount)
                   ELSE FZero,
      diff |-> IF Len(trend) - k >= 1
                 THEN trend[Len(trend) + 1 - k].amount - trend[Len(trend) - k].amount
                 ELSE 0,
      hasPrev |-> Len(trend) - k >= 1]]

\* the cell of the YoY column: row.hasPrev ? row.growth.toFixed(1) + '%' : '-'
GrowthCell(row) == IF row.hasPrev THEN Percent(row.growth) ELSE Txt("-")

\* the records a table is made of: up to MaxRecords of these, in any order
TestRecordPool ==
  { [id |-> "1", date |-> "2023-10-20", ticker |-> "0056", amount |-> 24000, note |-> ""],
    [id |-> "2", date |-> "2024-01-15", ticker |-> "0050", amount |-> 30000, note |-> ""],
    [id |-> "3", date |-> "2022-06-30", ticker |-> "00919", amount |-> 0, note |-> ""],
    [id |-> "4", date |-> "2023-11-15", ticker |-> "00878", amount |-> -24000, note |-> ""],
    [id |-> "5", date |-> "2024-07-15", ticker |-> "0056", amount |-> 12000, note |-> ""] }

MaxRecords == 3

TestRecords ==
  UNION {[1..n -> TestRecordPool] : n \in 0..MaxRecords}

CallYearlyPerformance(records) ==
  /\ Idle
  /\ call' = [fn |-> "yearlyPerformance", arg |-> records]
  /\ ret' = <<>>
  /\ UNCHANGED appVars

\* the rows of the table, the cells of its YoY column, and the lines the
\* export writes under [YEARLY_PERFORMANCE] for the same records
ReturnYearlyPerformance ==
  /\ call.fn = "yearlyPerformance"
  /\ ret = <<>>
  /\ ret' = << [rows |-> yearlyPerformance(yearlyTrendData(call.arg, "ALL")),
                cells |-> [k \in DOMAIN yearlyTrendData(call.arg, "ALL") |->
                             GrowthCell(yearlyPerformance(yearlyTrendData(call.arg, "ALL"))[k])],
                exported |-> YearlyLines(call.arg, sortedYears(call.arg, 8), 8)] >>
  /\ UNCHANGED <<call, appVars>>

(***************************************************************************)
(* Dashboard.tsx: DividendTracker, the figures of the selected year.       *)
(***************************************************************************)
\* the code unit of a character of a date
CharCode(ch) == IF ch = "-" THEN 45 ELSE 48 + parseInt(ch)

\* a < b of two strings: by code units, a proper prefix coming first
RECURSIVE StringLess(_, _)
StringLess(a, b) ==
  IF b = "" THEN FALSE
  ELSE IF a = "" THEN TRUE
  ELSE IF Head(a) = Head(b) THEN StringLess(Tail(a), Tail(b))
  ELSE CharCode(Head(a)) < CharCode(Head(b))

\* records.filter(r => new Date(r.date).getFullYear() === selectedYear)
selectedYearRecords(records, selectedYear, zone) ==
  SelectSeq(records, LAMBDA r : getFullYear(r.date, zone) = selectedYear)

\* reduce((sum, r) => sum + r.amount, 0)
AmountOf(records) == SumOf([i \in DOMAIN records |-> records[i].amount])

\* filter(r => r.date <= today)
receivedInSelectedYear(selected, today) ==
  AmountOf(SelectSeq(selected, LAMBDA r : ~StringLess(today, r.date)))

\* filter(r => r.date > today)
pendingInSelectedYear(selected, today) ==
  AmountOf(SelectSeq(selected, LAMBDA r : StringLess(today, r.date)))

totalInSelectedYear(selected, today) ==
  receivedInSelectedYear(selected, today) + pendingInSelectedYear(selected, today)

totalReceivedAllTime(records, today) ==
  AmountOf(SelectSeq(records, LAMBDA r : ~StringLess(today, r.date)))

\* the cost basis summed with the buying fee, as calculateCost has it
RECURSIVE totalPortfolioCost_WithFee(_)
totalPortfolioCost_WithFee(hs) ==
  IF hs = <<>> THEN FZero
  ELSE FAdd(totalPortfolioCost_WithFee(SubSeq(hs, 1, Len(hs) - 1)),
            FFromInt(calculateCost(hs[Len(hs)])))

\* holdings.reduce((sum, h) => sum + (h.avgPrice * h.quantity), 0)
RECURSIVE totalPortfolioCost(_)
totalPortfolioCost(hs) ==
  IF hs = <<>> THEN FZero
  ELSE FAdd(totalPortfolioCost(SubSeq(hs, 1, Len(hs) - 1)),
            FMul(Price(hs[Len(hs)].avgPrice), FFromInt(hs[Len(hs)].quantity)))

YieldOf(total, cost) ==
  IF FPositive(cost) THEN FMul(FDiv(FFromInt(total), cost), FFromInt(100)) ELSE FZero

yieldOnCost(total, hs) == YieldOf(total, totalPortfolioCost(hs))

\* Array.from({length: 12}, (_, i) => ...), the bucket of month i at i + 1
monthlyData(selected, zone) ==
  [m \in 1..12 |->
     [monthNum |-> m,
      value |-> AmountOf(SelectSeq(selected, LAMBDA r : getMonth(r.date, zone) = m - 1))]]

\* the records the tracker is shown with: up to MaxRecords of these
TrackerRecordPool ==
  { [id |-> "1", date |-> "2023-10-20", ticker |-> "0056", amount |-> 24000, note |-> ""],
    [id |-> "2", date |-> "2024-01-01", ticker |-> "0050", amount |-> 30000, note |-> ""],
    [id |-> "3", date |-> "2024-03-01", ticker |-> "00878", amount |-> 12000, note |-> ""],
    [id |-> "4", date |-> "2024-03-15", ticker |-> "0056", amount |-> 5000, note |-> ""] }

TrackerRecords == UNION {[1..n -> TrackerRecordPool] : n \in 0..MaxRecords}

\* no holdings, the holdings of a first visit, and a holding edited to a
\* negative average price
TrackerHoldings ==
  { <<>>, INITIAL_HOLDINGS,
    <<[INITIAL_HOLDINGS[1] EXCEPT !.avgPrice = -1000]>> }

SelectableYears == {2023, 2024}

Todays == {"2024-01-01", "2024-03-10"}

CallDividendTracker(records, hs, selectedYear, today, zone) ==
  /\ Idle
  /\ call' = [fn |-> "DividendTracker",
              arg |-> [records |-> records, holdings |-> hs,
                       selectedYear |-> selectedYear, today |-> today, zone |-> zone]]
  /\ ret' = <<>>
  /\ UNCHANGED appVars

TrackerOf(a, selected) ==
  [selectedYearRecords |-> selected,
   receivedInSelectedYear |-> receivedInSelectedYear(selected, a.today),
   pendingInSelectedYear |-> pendingInSelectedYear(selected, a.today),
   totalInSelectedYear |-> totalInSelectedYear(selected, a.today),
   totalReceivedAllTime |-> totalReceivedAllTime(a.records, a.today),
   yieldOnCost |-> yieldOnCost(totalInSelectedYear(selected, a.today), a.holdings),
   monthlyData |-> monthlyData(selected, a.zone),
   yearlyTrendData |-> yearlyTrendData(a.records, "ALL"),
   exported |-> YearlyLines(a.records, sortedYears(a.records, a.zone), a.zone)]

\* what a render of the tracker computes
ReturnDividendTracker ==
  /\ call.fn = "DividendTracker"
  /\ ret = <<>>
  /\ ret' = <<TrackerOf(call.arg,
                        selectedYearRecords(call.arg.records, call.arg.selectedYear,
                                            call.arg.zone))>>
  /\ UNCHANGED <<call, appVars>>

\* the items a body of Yahoo may quote 0050 with: a price, a negative
\* price, a negative previous close after no price, and no price at all
YahooItems ==
  { << [symbol |-> <<"0050", "TW">>, regularMarketPrice |-> price,
        previousClose |-> previousClose] >> :
      price \in {0, 7100, -7100}, previousClose \in {0, 7095, -7095} }

\* the network whose first proxy answers the request to Yahoo with the
\* items, every other request being rejected
YahooNetwork(items) ==
  [r \in Requests |->
     IF r = <<"Yahoo", 1>>
       THEN [rejected |-> FALSE, ok |-> TRUE,
             json |-> <<[quoteResponse |-> [result |-> items]]>>]
       ELSE TestResponse(r[1], r[2], "rejected")]

CallFetchFromYahoo(items) ==
  /\ Idle
  /\ call' = [fn |-> "fetchFromYahoo", arg |-> items]
  /\ ret' = <<>>
  /\ UNCHANGED appVars

\* what fetchLivePrices returns when TWSE has failed and Yahoo answers
ReturnFetchFromYahoo ==
  /\ call.fn = "fetchFromYahoo"
  /\ ret = <<>>
  /\ ret' = <<fetchLivePrices(YahooNetwork(call.arg))>>
  /\ UNCHANGED <<call, appVars>>

NextCalc ==
  \/ \E items \in YahooItems : CallFetchFromYahoo(items)
  \/ ReturnFetchFromYahoo
  \/ \E records \in TestRecords : CallYearlyPerformance(records)
  \/ ReturnYearlyPerformance
  \/ \E records \in TrackerRecords, hs \in TrackerHoldings, selectedYear \in SelectableYears,
        today \in Todays, zone \in TimeZones :
       CallDividendTracker(records, hs, selectedYear, today, zone)
  \/ ReturnDividendTracker
  \/ \E h \in TestHoldings : CallEnrichHolding(h)
  \/ ReturnEnrichHolding
  \/ \E s \in TestSummaries : CallRebalancing(s)
  \/ ReturnRebalancing
  \/ \E outcomes \in [Requests -> Outcomes] : CallFetchLivePrices(outcomes)
  \/ ReturnFetchLivePrices

SpecCalc == InitCalc /\ [][NextCalc]_vars

Returned(fn) == call.fn = fn /\ ret # <<>>

(***************************************************************************)
(* Exact decimal reference values.  A price p stands for p / 100, so       *)
(* quantity * price * (1 + rate) is num / 10^10 with                       *)
(* num = quantity * p * (10^8 + rate * 10^8).                              *)
(***************************************************************************)
TenTo10 == XMul(XInt(100000), XInt(100000))

\* 0.001425 * 0.28 * 10^8
FeeE8 == 1425 * 28

\* 0.001 * 10^8
StockTaxE8 == 100000

\* c is an integer nearest to num / den, for den > 0
NearestInteger(c, num, den) ==
  XLeq(XMul(XInt(2), XAbs(XSub(XMul(XInt(c), den), num))), den)

ExactCostE10(h) ==
  XMul(XMul(XInt(h.quantity), XInt(h.avgPrice)), XInt(100000000 + FeeE8))

ExactPresentValueE10(h) ==
  XMul(XMul(XInt(h.quantity), XInt(h.currentPrice)),
       XInt(100000000 - FeeE8 - (IF h.type = STOCK THEN StockTaxE8 ELSE 0)))

\* c = x + 1/2 and c = x - 1/2: x is halfway and was rounded up, or down
RoundedUpFromHalf(x, c) == XEq(XSub(XInt(c), x), XPow2(-1))

RoundedDownFromHalf(x, c) == XEq(XSub(x, XInt(c)), XPow2(-1))

\* a halfway x went to the neighbour of larger magnitude
TieAwayFromZero(x, c) ==
  /\ RoundedUpFromHalf(x, c) => ~x.neg
  /\ RoundedDownFromHalf(x, c) => x.neg

\* a halfway x went to the neighbour towards +Infinity
TieUp(x, c) == ~RoundedDownFromHalf(x, c)

IsWorkedExample(h) ==
  /\ h.quantity = 22000 /\ h.avgPrice = 6235 /\ h.currentPrice = 6370
  /\ h.type = STOCK

\* C1 as stated: the worked example yields cost 1372248 and presentValue
\* 1399440.
C1_AsStated ==
  (Returned("enrichHolding") /\ IsWorkedExample(call.arg))
    => (ret[1].cost = 1372248 /\ ret[1].presentValue = 1399440)

\* C1 amended: for the worked example holding (22000 units bought at 62.35,
\* priced at 63.7, STOCK) enrichHolding yields cost = 1372247 and
\* presentValue = 1399439.
C1_WorkedExample ==
  (Returned("enrichHolding") /\ IsWorkedExample(call.arg))
    => (ret[1].cost = 1372247 /\ ret[1].presentValue = 1399439)

C1_Witness == Returned("enrichHolding") /\ IsWorkedExample(call.arg)

\* C2: calculateCost returns the integer nearest to the exact value of
\* quantity * avgPrice * (1 + 0.001425 * 0.28): one rounding, of base cost
\* and fee together.
C2_CostRoundedOnce ==
  Returned("enrichHolding")
    => NearestInteger(ret[1].cost, ExactCostE10(call.arg), TenTo10)

\* 1 unit at 25.49: 25.49 + 0.0102 rounds to 26, the parts rounded
\* separately give 25
C2_Witness ==
  /\ Returned("enrichHolding")
  /\ call.arg.quantity = 1 /\ call.arg.avgPrice = 2549
  /\ ret[1].cost = 26

\* C3: calculatePresentValue returns the integer nearest to the exact value
\* of quantity * currentPrice * (1 - 0.001425 * 0.28 - tax), tax being 0.001
\* for STOCK and 0 for BOND.
C3_PresentValueTaxByType ==
  Returned("enrichHolding")
    => NearestInteger(ret[1].presentValue, ExactPresentValueE10(call.arg), TenTo10)

\* a BOND whose value the tax would have changed
C3_Witness ==
  /\ Returned("enrichHolding")
  /\ call.arg.type = BOND
  /\ ~NearestInteger(ret[1].presentValue,
                     ExactPresentValueE10([call.arg EXCEPT !.type = STOCK]), TenTo10)

\* C4 as stated: cost and presentValue are integers and a halfway value is
\* rounded away from zero, negative values included.
C4_AsStated ==
  Returned("enrichHolding")
    => /\ ret[1].cost \in Int /\ ret[1].presentValue \in Int
       /\ TieAwayFromZero(CostBeforeRound(call.arg), ret[1].cost)
       /\ TieAwayFromZero(PresentValueBeforeRound(call.arg), ret[1].presentValue)

\* C4 amended: cost and presentValue are integers and a halfway value is
\* rounded towards +Infinity: away from zero when positive, towards zero
\* when negative.
C4_TiesRoundUp ==
  Returned("enrichHolding")
    => /\ ret[1].cost \in Int /\ ret[1].presentValue \in Int
       /\ TieUp(CostBeforeRound(call.arg), ret[1].cost)
       /\ TieUp(PresentValueBeforeRound(call.arg), ret[1].presentValue)

\* a negative halfway cost: -500199.5 becomes -500199
C4_Witness ==
  /\ Returned("enrichHolding")
  /\ CostBeforeRound(call.arg).neg
  /\ RoundedUpFromHalf(CostBeforeRound(call.arg), ret[1].cost)

\* C5: profit = presentValue - cost; roi is 0 when cost = 0 and
\* profit / cost * 100 otherwise, and is never the result of a division by
\* zero.
C5_ProfitAndGuardedRoi ==
  Returned("enrichHolding")
    => /\ ret[1].profit = ret[1].presentValue - ret[1].cost
       /\ ret[1].roi # NonFinite
       /\ ret[1].cost = 0 => ret[1].roi = FZero
       /\ ret[1].cost # 0 =>
            ret[1].roi = FMul(FDiv(FFromInt(ret[1].profit), FFromInt(ret[1].cost)),
                              FFromInt(100))

C5_Witness ==
  /\ Returned("enrichHolding")
  /\ ret[1].cost = 0 /\ ret[1].presentValue # 0

\* C6: a holding with quantity 0 has cost, presentValue, profit and roi 0.
C6_ZeroQuantity ==
  (Returned("enrichHolding") /\ call.arg.quantity = 0)
    => /\ ret[1].cost = 0 /\ ret[1].presentValue = 0
       /\ ret[1].profit = 0 /\ ret[1].roi = FZero

C6_Witness ==
  /\ Returned("enrichHolding")
  /\ call.arg.quantity = 0 /\ call.arg.avgPrice > 0 /\ call.arg.currentPrice > 0

\* stockValue + bondValue of the summary handed to the dashboard
InvestedTotal == summary.stockValue + summary.bondValue

\* both ratios are exactly 0
RatiosZero == summary.stockRatio = FZero /\ summary.bondRatio = FZero

\* C7 as stated: stockRatio + bondRatio, added as the program adds, is 100
\* whenever stockValue + bondValue > 0, and both ratios are 0 whenever
\* stockValue + bondValue = 0.
C7_AsStated ==
  /\ InvestedTotal > 0 =>
       FAdd(summary.stockRatio, summary.bondRatio) = FFromInt(100)
  /\ InvestedTotal = 0 => RatiosZero

\* C7 amended: whenever stockValue + bondValue > 0, stockRatio + bondRatio
\* differs from 100 by at most 2^-51 * (|stockRatio| + |bondRatio|), the
\* rounding of the two divisions and multiplications; whenever
\* stockValue + bondValue = 0 both ratios are exactly 0.
C7_RatiosSumWithinRounding ==
  /\ InvestedTotal > 0 =>
       XLeq(XAbs(XSub(XAdd(summary.stockRatio, summary.bondRatio), XInt(100))),
            XMul(XPow2(-51), XAdd(XAbs(summary.stockRatio), XAbs(summary.bondRatio))))
  /\ InvestedTotal = 0 => RatiosZero

\* a portfolio of stocks and bonds, after a handler has run, whose two ratios
\* do not add up to 100
C7_Witness ==
  /\ handled > 0
  /\ summary.stockValue > 0 /\ summary.bondValue > 0
  /\ ~XEq(XAdd(summary.stockRatio, summary.bondRatio), XInt(100))

\* C8: totalAssets = stockValue + bondValue + cash, totalProfit =
\* stockValue + bondValue - totalCost with totalCost the sum of the holdings'
\* costs, totalRoi = 0 whenever totalCost = 0, and with no holdings and cash c
\* the summary has totalAssets = c and stockRatio = bondRatio = totalRoi = 0.
C8_SummaryTotals ==
  /\ summary.totalAssets = FAdd(FFromInt(InvestedTotal), CashValue(cash))
  /\ summary.totalCost = SumOf(Costs(calculatedHoldings))
  /\ summary.totalProfit = InvestedTotal - summary.totalCost
  /\ summary.totalCost = 0 => summary.totalRoi = FZero
  /\ holdings = <<>> =>
       /\ summary.totalAssets = CashValue(cash)
       /\ RatiosZero
       /\ summary.totalRoi = FZero

\* the portfolio emptied by an import that carried cash only
C8_Witness ==
  /\ handled > 0
  /\ holdings = <<>>
  /\ cash # 0

\* C9: after any sequence of handler runs the summary handed to the dashboard,
\* and the calculated holdings it is built from, equal those computed afresh
\* from the current holdings and the current cash.
C9_SummaryIsCurrent ==
  /\ calculatedHoldings = CalculatedHoldings(holdings)
  /\ summary = Summary(CalculatedHoldings(holdings), cash)

\* the holdings and then the cash have been changed
C9_Witness ==
  /\ handled = MaxHandled
  /\ holdings # INITIAL_HOLDINGS
  /\ cash # INITIAL_CASH * PriceScale
  /\ summary.cashValue = CashValue(cash)

\* stock / total is 60%, exactly or as the program divides
ShareIs60(stock, total) ==
  \/ XEq(XMul(XInt(5), stock), XMul(XInt(3), total))
  \/ FDiv(FRound(stock), FRound(total)) = TargetStock

\* stock / total is within 2^-52 of 60%
ShareNear60(stock, total) ==
  XLeq(XAbs(XSub(XMul(XInt(5), stock), XMul(XInt(3), total))),
       XMul(XMul(XInt(5), XPow2(-52)), total))

\* the stock value once switchAmount has moved between the classes
StockAfterSwitch(s, r) ==
  IF r.switchAction = "buy_stock"
    THEN XAdd(XInt(s.stockValue), r.switchAmount)
    ELSE XSub(XInt(s.stockValue), r.switchAmount)

\* the stock value and the total once inflowAmount has bought inflowType
StockAfterInflow(s, r) ==
  IF r.inflowType = "stock"
    THEN XAdd(XInt(s.stockValue), r.inflowAmount)
    ELSE XInt(s.stockValue)

TotalAfterInflow(s, r) == XAdd(XInt(s.stockValue + s.bondValue), r.inflowAmount)

\* the amounts are non-negative and each action names the underweight class
AmountsNonNegative(r) ==
  /\ ~r.switchAmount.neg /\ ~r.inflowAmount.neg
  /\ r.switchAmount # NonFinite /\ r.inflowAmount # NonFinite
  /\ r.inflowType = IF FPositive(r.diff) THEN "stock" ELSE "bond"
  /\ r.switchAction = IF FPositive(r.diff) THEN "buy_stock" ELSE "buy_bond"

Rebalanced ==
  /\ Returned("rebalancingCalculations")
  /\ call.arg.stockValue >= 0 /\ call.arg.bondValue >= 0
  /\ call.arg.stockValue + call.arg.bondValue > 0

\* C10 as stated: for non-negative stockValue and bondValue with a positive
\* sum the switch and inflow amounts are non-negative, and applying either
\* gives a stock share of exactly 60%.
C10_AsStated ==
  Rebalanced
    => /\ AmountsNonNegative(ret[1])
       /\ ShareIs60(StockAfterSwitch(call.arg, ret[1]),
                    XInt(call.arg.stockValue + call.arg.bondValue))
       /\ ShareIs60(StockAfterInflow(call.arg, ret[1]),
                    TotalAfterInflow(call.arg, ret[1]))

\* C10 amended: for non-negative stockValue and bondValue with a positive sum
\* the switch and inflow amounts are non-negative, moving the switch amount
\* gives a stock share within 2^-52 of 60%, and adding the inflow amount to the
\* class named by inflowType (stock when diff > 0, bond otherwise) gives a
\* stock share within 2^-52 of 60%.
C10_RebalanceNear60 ==
  Rebalanced
    => /\ AmountsNonNegative(ret[1])
       /\ ShareNear60(StockAfterSwitch(call.arg, ret[1]),
                      XInt(call.arg.stockValue + call.arg.bondValue))
       /\ ShareNear60(StockAfterInflow(call.arg, ret[1]),
                      TotalAfterInflow(call.arg, ret[1]))

\* cash buys stock and the share it leaves is not exactly 60%
C10_Witness ==
  /\ Rebalanced
  /\ ret[1].inflowType = "stock"
  /\ FPositive(ret[1].inflowAmount)
  /\ ~ShareIs60(StockAfterInflow(call.arg, ret[1]), TotalAfterInflow(call.arg, ret[1]))

\* diff as the claim writes it: 0.6 * (stockValue + bondValue) - stockValue
DiffOf(s) ==
  FSub(FMul(FLit(6, 10), FFromInt(s.stockValue + s.bondValue)), FFromInt(s.stockValue))

\* C11: the rebalance calculation returns the sentinel (action none, amount
\* 0) exactly when stockValue + bondValue = 0; otherwise switchAmount = |diff|
\* with diff = 0.6 * (stockValue + bondValue) - stockValue, and switchAction
\* is buy_stock when diff > 0 and buy_bond when diff <= 0.
C11_SentinelOrSwitch ==
  Returned("rebalancingCalculations")
    => IF call.arg.stockValue + call.arg.bondValue = 0
         THEN /\ "action" \in DOMAIN ret[1]
              /\ ret[1].action = "none" /\ ret[1].amount = FZero
         ELSE /\ "action" \notin DOMAIN ret[1]
              /\ ret[1].diff = DiffOf(call.arg)
              /\ ret[1].switchAmount = FAbs(DiffOf(call.arg))
              /\ ret[1].switchAction =
                   IF FPositive(DiffOf(call.arg)) THEN "buy_stock" ELSE "buy_bond"

\* no stock and some bonds: not the sentinel, and stock is to be bought
C11_Witness ==
  /\ Returned("rebalancingCalculations")
  /\ call.arg.stockValue = 0 /\ call.arg.bondValue > 0
  /\ "action" \notin DOMAIN ret[1]
  /\ ret[1].switchAction = "buy_stock"

\* a confirmed import of the file that was exported from the present state
ReimportsExport ==
  /\ \E zone \in TimeZones :
       download = ExportCSV(summary, cash, calculatedHoldings, dividendRecords, zone)
  /\ handleImportCSV(download, TRUE)

\* C12 as stated: exporting with handleExportCSV and importing the produced
\* file, confirmed, yields the holdings that were exported, record by record
\* and in the same order, and the dividend records that were exported, notes
\* with commas and double quotes included.
C12_AsStated ==
  [][ReimportsExport => holdings' = holdings /\ dividendRecords' = dividendRecords]_vars

\* the section a line of a file is read under: the marker last seen before it
SectionAt(lines, i) ==
  IF \A j \in 1..(i - 1) : ~IsMarker(lines[j]) THEN ""
  ELSE lines[CHOOSE j \in 1..(i - 1) :
               IsMarker(lines[j]) /\ \A k \in (j + 1)..(i - 1) : ~IsMarker(lines[k])][1].text

\* a row of data: not blank, not a marker, not a header
IsDataRow(parts) == ~IsBlank(parts) /\ ~IsMarker(parts) /\ ~IsHeaderRow(parts)

\* a row that lacks a required column or whose numeric field is no numeral
MalformedRow(section, parts) ==
  \/ /\ section = "[HOLDINGS]"
     /\ Len(parts) < 7 \/ \E k \in 5..7 : ~IsNumeral(parts[k])
  \/ /\ section = "[DIVIDENDS]"
     /\ Len(parts) < 5 \/ ~IsNumeral(parts[4])

Malformed(lines) ==
  \E i \in DOMAIN lines :
    IsDataRow(lines[i]) /\ MalformedRow(SectionAt(lines, i), lines[i])

\* C13 as stated: importing a file with a HOLDINGS or DIVIDENDS row that
\* lacks a required column or has an unparseable numeric field is reported
\* as one format-invalid failure, and leaves the holdings, the cash and the
\* dividend records as they were.
C13_AsStated ==
  [][(\E file \in ImportFiles, confirmed \in BOOLEAN :
        Malformed(file) /\ handleImportCSV(file, confirmed))
       => /\ alerts' = Append(alerts, "import failed: format invalid")
          /\ UNCHANGED <<holdings, cash, dividendRecords>>]_vars

\* the files an import may be given
ChosenFiles == ImportFiles \cup {download}

\* C14: handleImportCSV changes none of the holdings, the cash and the
\* dividend records when the user declines the confirmation or when the
\* parsing finds no usable data; nothing is set before the answer.
C14_NothingSetUnlessConfirmed ==
  [][(\E file \in ChosenFiles :
        \/ handleImportCSV(file, FALSE)
        \/ NothingParsed(ParseCSV(file)) /\ handleImportCSV(file, TRUE))
       => UNCHANGED <<holdings, cash, dividendRecords>>]_vars

C14_Witness ==
  /\ handled = 1
  /\ alerts = <<"import failed: format invalid">>
  /\ Saved(holdings, cash, dividendRecords) \in StoredAtLoad

\* the rows of data among the first n lines that are read under a section
RECURSIVE RowsUnder(_, _, _)
RowsUnder(lines, section, n) ==
  IF n = 0 THEN <<>>
  ELSE IF IsDataRow(lines[n]) /\ SectionAt(lines, n) = section
    THEN Append(RowsUnder(lines, section, n - 1), lines[n])
  ELSE RowsUnder(lines, section, n - 1)

HoldingsUnder(lines) ==
  [i \in DOMAIN SelectSeq(RowsUnder(lines, "[HOLDINGS]", Len(lines)),
                          LAMBDA row : Len(row) >= 7) |->
     HoldingRow(SelectSeq(RowsUnder(lines, "[HOLDINGS]", Len(lines)),
                          LAMBDA row : Len(row) >= 7)[i])]

DividendsUnder(lines) ==
  [i \in DOMAIN SelectSeq(RowsUnder(lines, "[DIVIDENDS]", Len(lines)),
                          LAMBDA row : Len(row) >= 5) |->
     DividendRow(SelectSeq(RowsUnder(lines, "[DIVIDENDS]", Len(lines)),
                           LAMBDA row : Len(row) >= 5)[i])]

\* the [CASH] section supplies a numeric value
CashSupplied(lines) ==
  \E i \in DOMAIN lines :
    IsDataRow(lines[i]) /\ SectionAt(lines, i) = "[CASH]" /\ IsNumeral(lines[i][1])

\* the file without the rows under [SUMMARY] and [YEARLY_PERFORMANCE]
RECURSIVE WithoutDerived(_, _)
WithoutDerived(lines, n) ==
  IF n = 0 THEN <<>>
  ELSE IF IsDataRow(lines[n])
          /\ SectionAt(lines, n) \in {"[SUMMARY]", "[YEARLY_PERFORMANCE]"}
    THEN WithoutDerived(lines, n - 1)
  ELSE Append(WithoutDerived(lines, n - 1), lines[n])

\* C15: a confirmed import sets the holdings to exactly the rows parsed from
\* [HOLDINGS] and the dividend records to exactly the rows parsed from
\* [DIVIDENDS], changes the cash only when [CASH] supplied a numeric value,
\* and sets what the file without its [SUMMARY] and [YEARLY_PERFORMANCE]
\* rows would set.
C15_ImportSetsParsedRows ==
  [][\A file \in ChosenFiles :
       ~NothingParsed(ParseCSV(file)) /\ handleImportCSV(file, TRUE)
         => /\ holdings' = HoldingsUnder(file)
            /\ dividendRecords' = DividendsUnder(file)
            /\ ~CashSupplied(file) => cash' = cash
            /\ ParseCSV(WithoutDerived(file, Len(file))) = ParseCSV(file)]_vars

C15_Witness ==
  /\ alerts = <<"import succeeded">>
  /\ \E file \in ImportFiles :
       /\ holdings = HoldingsUnder(file) /\ Len(holdings) = 2
       /\ dividendRecords = DividendsUnder(file) /\ Len(dividendRecords) = 1
       /\ cash = 25000000

\* C16: when fetchLivePrices rejects, every strategy having failed,
\* handleRefreshPrices shows one failure notification and leaves every
\* holding as it was.
C16_FailureAlertsOnce ==
  [][RefreshPricesRejected
       => alerts' = Append(alerts, "update failed") /\ holdings' = holdings]_vars

C16_Witness ==
  /\ alerts # <<>> /\ alerts[Len(alerts)] = "update failed"
  /\ fetching = <<>> /\ ~isUpdatingPrices
  /\ holdings # <<>>

\* the holding h with the quote for its code, if there is one, as its price
Requoted(h, newPrices) ==
  IF h.code \in DOMAIN newPrices
    THEN [id |-> h.id, name |-> h.name, code |-> h.code, type |-> h.type,
          quantity |-> h.quantity, avgPrice |-> h.avgPrice,
          currentPrice |-> newPrices[h.code]]
    ELSE h

\* C17: when a refresh completes with a quote map, whatever edits, adds and
\* deletes happened since it started, the holdings become the holdings at
\* completion with currentPrice replaced where the code has a quote: no
\* holding is added or lost and no other field changes.
C17_RefreshKeepsEdits ==
  [][\A newPrices \in Replies :
       (\E eager \in BOOLEAN : RefreshPricesResolved(newPrices, eager))
         => /\ Len(holdings') = Len(holdings)
            /\ \A i \in DOMAIN holdings : holdings'[i] = Requoted(holdings[i], newPrices)]_vars

\* a holding added while the fetch was in flight keeps its price, and the
\* holdings that were quoted have the new one
C17_Witness ==
  /\ fetching = <<>> /\ alerts # <<>>
  /\ \E i, j \in DOMAIN holdings :
       /\ holdings[i].code = "T1" /\ holdings[i].currentPrice = 2000
       /\ holdings[j].code = "0050" /\ holdings[j].currentPrice = 7000

\* the six requests in the order the claim gives
RequestOrder ==
  << <<"TWSE", 1>>, <<"TWSE", 2>>, <<"TWSE", 3>>,
     <<"Yahoo", 1>>, <<"Yahoo", 2>>, <<"Yahoo", 3>> >>

\* the first k of them, each by its source and its proxy
FirstRequests(k) ==
  [j \in 1..k |-> <<RequestOrder[j][1], PROXY_PROVIDERS[RequestOrder[j][2]]>>]

\* the requests that meet a usable quote
Quoted(outcomes) == {k \in 1..6 : outcomes[RequestOrder[k]] = "quotes"}

\* the quote the k-th request is answered with
QuoteOf(k) ==
  IF RequestOrder[k] \in {<<"TWSE", 1>>, <<"TWSE", 2>>, <<"TWSE", 3>>, <<"Yahoo", 1>>}
    THEN TestPrice(RequestOrder[k][1], RequestOrder[k][2])
    ELSE TestPrice(RequestOrder[k][1], RequestOrder[k][2]) - 5

\* C18: fetchLivePrices asks TWSE through the three proxies in their listed
\* order, then Yahoo through the same three; it returns the quote map of the
\* first request answered with a usable quote and makes no request after
\* it, never returns an empty map, and throws only after all six failed.
C18_FirstUsableQuote ==
  Returned("fetchLivePrices")
    => IF Quoted(call.arg) = {}
         THEN ret[1].threw /\ ret[1].attempts = FirstRequests(6)
         ELSE \E k \in Quoted(call.arg) :
                /\ \A j \in Quoted(call.arg) : k <= j
                /\ ~ret[1].threw
                /\ ret[1].attempts = FirstRequests(k)
                /\ ret[1].prices = ("0050" :> QuoteOf(k))
                /\ ret[1].prices # NoQuotes

\* TWSE failed three times in three ways and Yahoo's second proxy answered
C18_Witness ==
  /\ Returned("fetchLivePrices")
  /\ call.arg[<<"TWSE", 1>>] = "rejected" /\ call.arg[<<"TWSE", 2>>] = "not ok"
  /\ call.arg[<<"TWSE", 3>>] = "no quote" /\ call.arg[<<"Yahoo", 1>>] = "no quote"
  /\ call.arg[<<"Yahoo", 2>>] = "quotes" /\ call.arg[<<"Yahoo", 3>>] = "quotes"
  /\ ~ret[1].threw
  /\ Len(ret[1].attempts) = 5
  /\ ret[1].attempts[5] = <<"Yahoo", "api.allorigins.win">>

\* the years the records are dated in, and the number a year reads as
YearsIn(records) == {SubSeq(records[i].date, 1, 4) : i \in DOMAIN records}

YearNumber(year) == CHOOSE n \in 2000..2100 : ToString(n) = year

\* the total of the records dated in a year
TotalOf(records, year) ==
  SumOf([i \in DOMAIN SelectSeq(records, LAMBDA r : SubSeq(r.date, 1, 4) = year) |->
           SelectSeq(records, LAMBDA r : SubSeq(r.date, 1, 4) = year)[i].amount])

\* the years of the records before a year, and the one just before it
YearsBefore(records, year) ==
  {y \in YearsIn(records) : YearNumber(y) < YearNumber(year)}

PrecedingYear(records, year) ==
  CHOOSE p \in YearsBefore(records, year) :
    \A y \in YearsBefore(records, year) : YearNumber(y) <= YearNumber(p)

\* growth is unavailable for a year: it is the first, or the year before it
\* has a total that is not above 0
GrowthUnavailable(records, year) ==
  \/ YearsBefore(records, year) = {}
  \/ TotalOf(records, PrecedingYear(records, year)) <= 0

\* C19 as stated: in the yearly performance table and in the exported
\* [YEARLY_PERFORMANCE] section, growth is reported as unavailable ('-', not
\* 0%) for the first available year and whenever the total of the year
\* before is not above 0.
C19_AsStated ==
  Returned("yearlyPerformance")
    => /\ \A k \in DOMAIN ret[1].rows :
            GrowthUnavailable(call.arg, ret[1].rows[k].year)
              => ret[1].cells[k] = Txt("-")
       /\ \A k \in DOMAIN ret[1].exported :
            GrowthUnavailable(call.arg, ToString(ret[1].exported[k][1].num))
              => ret[1].exported[k][3] = Txt("-")

\* C20: for every year after the first whose preceding year in the records
\* has a total prev > 0, the table's growth is (amount - prev) / prev * 100
\* as the program computes it, prev being the total of the year just before
\* it among the years of the records; the first year's growth is shown as
\* unavailable.
C20_GrowthFromPrecedingYear ==
  Returned("yearlyPerformance")
    => /\ {ret[1].rows[k].year : k \in DOMAIN ret[1].rows} = YearsIn(call.arg)
       /\ \A k \in DOMAIN ret[1].rows :
            /\ ret[1].rows[k].amount = TotalOf(call.arg, ret[1].rows[k].year)
            /\ YearsBefore(call.arg, ret[1].rows[k].year) = {}
                 => ret[1].cells[k] = Txt("-")
            /\ ~GrowthUnavailable(call.arg, ret[1].rows[k].year)
                 => /\ ret[1].rows[k].growth =
                         FMul(FDiv(FFromInt(ret[1].rows[k].amount
                                            - TotalOf(call.arg, PrecedingYear(call.arg, ret[1].rows[k].year))),
                                   FFromInt(TotalOf(call.arg, PrecedingYear(call.arg, ret[1].rows[k].year)))),
                              FFromInt(100))
                    /\ ret[1].cells[k] = Percent(ret[1].rows[k].growth)

\* 30000 in 2024 entered before 24000 in 2023: 25% for 2024, '-' for 2023
C20_Witness ==
  /\ Returned("yearlyPerformance")
  /\ Len(call.arg) = 2
  /\ call.arg[1].date = "2024-01-15" /\ call.arg[1].amount = 30000
  /\ call.arg[2].date = "2023-10-20" /\ call.arg[2].amount = 24000
  /\ ret[1].rows[1].year = "2024" /\ ret[1].rows[1].growth = FFromInt(25)
  /\ ret[1].cells[1] = Percent(FFromInt(25))
  /\ ret[1].rows[2].year = "2023" /\ ret[1].cells[2] = Txt("-")

(***************************************************************************)
(* The dividend tracker: the selected year, its months, the yield.         *)
(***************************************************************************)
\* the year, month and day a YYYY-MM-DD date names
YearOfDate(date) == YearNumber(SubSeq(date, 1, 4))

TwoDigits(text) == CHOOSE n \in 0..99 : text = (IF n < 10 THEN "0" ELSE "") \o ToString(n)

MonthOfDate(date) == TwoDigits(SubSeq(date, 6, 7))

DayOfDate(date) == TwoDigits(SubSeq(date, 9, 10))

\* a date later in the calendar than another
DateAfter(date, asOf) ==
  \/ YearOfDate(date) > YearOfDate(asOf)
  \/ /\ YearOfDate(date) = YearOfDate(asOf)
     /\ \/ MonthOfDate(date) > MonthOfDate(asOf)
        \/ MonthOfDate(date) = MonthOfDate(asOf) /\ DayOfDate(date) > DayOfDate(asOf)

\* the total of the records at a set of positions
RECURSIVE SumAt(_, _)
SumAt(records, positions) ==
  IF positions = {} THEN 0
  ELSE records[CHOOSE i \in positions : TRUE].amount
         + SumAt(records, positions \ {CHOOSE i \in positions : TRUE})

\* the positions of the records paid in a year, in a month of it, and after
\* a date
PaidIn(records, year) == {i \in DOMAIN records : YearOfDate(records[i].date) = year}

PaidInMonth(records, year, month) ==
  {i \in PaidIn(records, year) : MonthOfDate(records[i].date) = month}

PaidAfter(records, asOf) == {i \in DOMAIN records : DateAfter(records[i].date, asOf)}

\* C21 as stated: for any as-of date and selected year, the received total is
\* that of the records paid in the selected year up to the as-of date, the
\* pending total that of those paid in it after the as-of date, and the year
\* total is their sum, the total of all records paid in the year; a record
\* paid after the as-of date is in the bucket of its month and in no
\* received total.
C21_AsStated ==
  Returned("DividendTracker")
    => /\ ret[1].receivedInSelectedYear =
            SumAt(call.arg.records, PaidIn(call.arg.records, call.arg.selectedYear)
                                      \ PaidAfter(call.arg.records, call.arg.today))
       /\ ret[1].pendingInSelectedYear =
            SumAt(call.arg.records, PaidIn(call.arg.records, call.arg.selectedYear)
                                      \cap PaidAfter(call.arg.records, call.arg.today))
       /\ ret[1].totalInSelectedYear =
            ret[1].receivedInSelectedYear + ret[1].pendingInSelectedYear
       /\ ret[1].totalInSelectedYear =
            SumAt(call.arg.records, PaidIn(call.arg.records, call.arg.selectedYear))
       /\ ret[1].totalReceivedAllTime =
            SumAt(call.arg.records, DOMAIN call.arg.records
                                      \ PaidAfter(call.arg.records, call.arg.today))
       /\ \A i \in PaidIn(call.arg.records, call.arg.selectedYear)
                     \cap PaidAfter(call.arg.records, call.arg.today) :
            ret[1].monthlyData[MonthOfDate(call.arg.records[i].date)].value =
              SumAt(call.arg.records,
                    PaidInMonth(call.arg.records, call.arg.selectedYear,
                                MonthOfDate(call.arg.records[i].date)))

\* C22 as stated: monthlyData has 12 buckets; the bucket of a month holds
\* the total of the records paid in that calendar month of the selected
\* year, whatever the as-of date, and the 12 buckets sum to the total of the
\* selected year.
C22_AsStated ==
  Returned("DividendTracker")
    => /\ Len(ret[1].monthlyData) = 12
       /\ \A m \in 1..12 :
            ret[1].monthlyData[m].value =
              SumAt(call.arg.records,
                    PaidInMonth(call.arg.records, call.arg.selectedYear, m))
       /\ SumOf([m \in 1..12 |-> ret[1].monthlyData[m].value]) = ret[1].totalInSelectedYear

\* avgPrice * quantity summed over the first n holdings, fees left out
RECURSIVE RawCostBasis(_, _)
RawCostBasis(hs, n) ==
  IF n = 0 THEN FZero
  ELSE FAdd(RawCostBasis(hs, n - 1), FMul(Price(hs[n].avgPrice), FFromInt(hs[n].quantity)))

\* C23: yieldOnCost is the total of the selected year divided by the sum of
\* avgPrice * quantity over the holdings, times 100, as the program computes
\* it, whenever that sum is positive, and 0 when the sum is not positive;
\* the sum is the raw cost basis, without the buying fee.
C23_YieldOnRawCost ==
  Returned("DividendTracker")
    => ret[1].yieldOnCost =
         IF FPositive(RawCostBasis(call.arg.holdings, Len(call.arg.holdings)))
           THEN FMul(FDiv(FFromInt(ret[1].totalInSelectedYear),
                          RawCostBasis(call.arg.holdings, Len(call.arg.holdings))),
                     FFromInt(100))
           ELSE FZero

\* 42000 in 2024 on the holdings of a first visit: a yield above 0
C23_Witness ==
  /\ Returned("DividendTracker")
  /\ call.arg.holdings = INITIAL_HOLDINGS
  /\ ret[1].totalInSelectedYear = 42000
  /\ FPositive(ret[1].yieldOnCost)

\* C29 as stated: a record with a YYYY-MM-DD payment date is counted under
\* one year everywhere: the yearly trend's amount for a year, all tickers,
\* is the selected-year total when that year is selected, and the exported
\* [YEARLY_PERFORMANCE] section has the years and amounts of the trend.
C29_AsStated ==
  Returned("DividendTracker")
    => /\ \A k \in DOMAIN ret[1].yearlyTrendData :
            YearNumber(ret[1].yearlyTrendData[k].year) = call.arg.selectedYear
              => ret[1].yearlyTrendData[k].amount = ret[1].totalInSelectedYear
       /\ {<<YearNumber(ret[1].yearlyTrendData[k].year), ret[1].yearlyTrendData[k].amount>> :
             k \in DOMAIN ret[1].yearlyTrendData}
            = {<<ret[1].exported[k][1].num, ret[1].exported[k][2].num>> :
                 k \in DOMAIN ret[1].exported}

(***************************************************************************)
(* The holdings as the user and the price sources leave them.              *)
(***************************************************************************)
\* C24 as stated: in every state reached through the user interface (the
\* inline edits of quantity, avgPrice and currentPrice, the add-holding
\* form, a price refresh) each holding's quantity, avgPrice and currentPrice
\* are at least 0.
C24_AsStated ==
  \A i \in DOMAIN holdings :
    holdings[i].quantity >= 0 /\ holdings[i].avgPrice >= 0 /\ holdings[i].currentPrice >= 0

\* C25 as stated: in every state, after a CSV import too, stockValue +
\* bondValue is the sum of presentValue over all holdings, each holding being
\* counted in exactly one of the two classes, so totalProfit is the sum of
\* the holdings' profits.
C25_AsStated ==
  /\ summary.stockValue + summary.bondValue = SumOf(PresentValues(calculatedHoldings))
  /\ \A i \in DOMAIN calculatedHoldings : calculatedHoldings[i].type \in {STOCK, BOND}
  /\ summary.totalProfit =
       SumOf([i \in DOMAIN calculatedHoldings |-> calculatedHoldings[i].profit])

\* C26 as stated: every value of the map fetchLivePrices returns, whichever
\* source and proxy produced it, is a number above 0, so a completed
\* refresh sets no currentPrice to zero, to a negative number, to NaN or to
\* a value that is not a number.
C26_AsStated ==
  (Returned("fetchLivePrices") \/ Returned("fetchFromYahoo"))
    => \A code \in DOMAIN ret[1].prices : ret[1].prices[code] > 0

\* C27: given that every network request eventually settles, a refresh
\* started with holdings sets isUpdatingPrices and has a fetch in flight,
\* and isUpdatingPrices eventually is false again, whether the fetch
\* resolves or rejects; isUpdatingPrices is never true while no fetch is in
\* flight; a refresh with no holdings does not set it.
C27_UpdatingWhileFetching ==
  /\ [](isUpdatingPrices <=> fetching # <<>>)
  /\ [][RefreshPricesCall => (isUpdatingPrices' <=> holdings # <<>>)]_vars
  /\ (isUpdatingPrices ~> ~isUpdatingPrices)

\* a refresh has failed and another is in flight
C27_Witness ==
  /\ isUpdatingPrices /\ fetching # <<>>
  /\ alerts = <<"update failed">>

\* C28 as stated: when the fetch returns a quote map, handleRefreshPrices
\* reports success with count N exactly when N > 0 holdings had their price
\* replaced from the map, and reports that no latest price was obtained only
\* when no holding's price was replaced.
C28_AsStated ==
  [][\A newPrices \in Replies :
       (\E eager \in BOOLEAN : RefreshPricesResolved(newPrices, eager))
         => alerts' = Append(alerts,
                             UpdateAlert(Cardinality({i \in DOMAIN holdings :
                                                        holdings[i].code \in DOMAIN newPrices})))]_vars

(***************************************************************************)
(* The monthly goal.                                                       *)
(***************************************************************************)
\* C30: starting from the default goal or from a goal the application saved,
\* the monthly goal is above 0 after any sequence of goal edits, the goal
\* saved in localStorage is the goal shown, and goalProgress = (total of the
\* year / 12) / goal * 100 is a finite number; handleSaveGoal leaves the
\* goal as it is when the input is not a number above 0.
C30_GoalStaysPositive ==
  /\ []( /\ monthlyGoal > 0
         /\ storedGoal # <<>> => parseFloat(storedGoal[1]) = monthlyGoal
         /\ goalProgress(AmountOf(dividendRecords), monthlyGoal) # NonFinite )
  /\ [][handleSaveGoal /\ (tempGoal \in {Txt(""), Txt("-")} \/ tempGoal.num <= 0)
          => UNCHANGED <<monthlyGoal, storedGoal>>]_vars

\* 0.5 was saved as the goal, and -5 is in the input, which OK does not save
C30_Witness ==
  /\ monthlyGoal = 50 /\ storedGoal = <<Num(50)>>
  /\ isEditingGoal /\ tempGoal = Num(-500)
  /\ ~ENABLED (handleSaveGoal /\ monthlyGoal' # monthlyGoal)

====
